---------------------------- MODULE Spec2Model ----------------------------
(***************************************************************************)
(* A model of the 13F ingestion pipeline of this repository:               *)
(*   - the filing selector and history analyzer  (src/13f_scraper/logic.py)*)
(*   - the fetch client                          (src/sec_client.py)       *)
(*   - the result cache                          (src/utils.py)            *)
(*   - the document parser                       (src/parser.py)           *)
(*   - the batch processor                       (src/13f_scraper/logic.py)*)
(* Each component has its own specification (SpecDates, SpecSelect, ...);  *)
(* the variables of the other components stay at their idle values.        *)
(***************************************************************************)
EXTENDS Integers, Sequences, FiniteSets, TLC

VARIABLES
    \* ---- filing selector / history analyzer (logic.py) ----
    filing_date,        \* SpecDates: the filing-date string under test
    fq_target,          \* SpecDates: quarter computed by _find_target_filings
    fq_first,           \* SpecDates: quarter computed by _check_first_time_filer
    submissions,        \* the submission-history payload of one company
    target,             \* <<target_year, target_quarter>>
    sel_pc,             \* position of the selection pipeline
    target_filings,     \* result of _find_target_filings
    latest_filing,      \* result of _get_latest_filing
    first_time,         \* result of _check_first_time_filer
    \* ---- fetch client (sec_client.py) ----
    clock,              \* time.time(), in milliseconds
    last_request_time,  \* SECClient.last_request_time, in milliseconds
    fetch_pc,           \* "idle", "attempt" (about to run _make_request's body)
                        \* or "backoff" (the retry policy is about to wait)
    fetch_op,           \* the client operation in progress
    attempt_number,     \* the retry policy's attempt counter of the call
    attempt_log,        \* outcomes of the attempts of the current/last call
    fetch_result,       \* what the last call handed to its caller
    request_result,     \* how _make_request ended for the last call
    prev_sent,          \* send time of the request before the last one (-1: none)
    last_sent,          \* send time of the last outbound request (-1: none)
    calls,              \* client operations started so far
    ticks,              \* idle periods so far
    \* ---- result cache (utils.py) ----
    cache_files,        \* the cache directory: key -> content of the key's file
    cache_clock,        \* datetime.now(), in hours
    cache_last,         \* the cache call made by the last step: its key, the
                        \* key's file before it, and what it returned
    lookup_last,        \* the last _get_company_submissions call and what it did
    last_ok_fetch,      \* per cik: when its history was last fetched successfully
    \* ---- document parser (parser.py) ----
    content,            \* the raw document handed to parse_information_table
    parse_pc,           \* "doc" before the parse, "parsed" after it
    parse_path,         \* the extractor that produced the table
    holdings_df,        \* the table parse_information_table returned
    num_holdings,       \* get_holdings_count of that table
    \* ---- fund processor (logic.py) ----
    proc_pc,            \* "request", "loop" or "returned"
    request,            \* the arguments of process_funds
    quarter_str,        \* the quarter text the call works with
    target_yq,          \* <<year, quarter_num>> parsed from it
    fund_list,          \* the funds _get_fund_list returned
    fund_idx,           \* position of the loop over fund_list
    fund_env,           \* what cache, network and disk did for the last fund
    filing_summaries,   \* the summaries collected so far
    outcomes,           \* per fund: how _process_single_fund ended
    cache_sets,         \* the Cache.set calls made: <<cik, "history" or "empty">>
    saved_files,        \* the ciks whose holdings files were written
    net_requests,       \* the requests handed to the fetch client: <<kind, what>>
    name_ciks,          \* per fund name of the request: the cik the search gave
    \* ---- pure helpers called on their own (logic.py, utils.py) ----
    util_pc,            \* "args" before the call, "done" after it
    filter_args,        \* the arguments of _passes_holdings_filters
    filter_passes,      \* what it returned
    quarter_text,       \* the argument of parse_quarter
    quarter_result      \* what parse_quarter returned or that it raised, and
                        \* format_quarter of the pair it returned

selVars == <<filing_date, fq_target, fq_first, submissions, target, sel_pc,
             target_filings, latest_filing, first_time>>

fetchVars == <<clock, last_request_time, fetch_pc, fetch_op, attempt_number,
               attempt_log, fetch_result, request_result, prev_sent, last_sent,
               calls, ticks>>

cacheVars == <<cache_files, cache_clock, cache_last, lookup_last, last_ok_fetch>>

parseVars == <<content, parse_pc, parse_path, holdings_df, num_holdings>>

procVars ==
    <<proc_pc, request, quarter_str, target_yq, fund_list, fund_idx, fund_env,
      filing_summaries, outcomes, cache_sets, saved_files, net_requests,
      name_ciks>>

utilVars == <<util_pc, filter_args, filter_passes, quarter_text, quarter_result>>

vars == <<selVars, fetchVars, cacheVars, parseVars, procVars, utilVars>>

None == "None"

(***************************************************************************)
(* Values of the state while a component is not in use.                    *)
(***************************************************************************)
\* Python's None where a filing object is expected
NoFiling ==
    [form |-> "None", filingDate |-> <<>>, accessionNumber |-> "None",
     primaryDocument |-> "None"]

EmptyRecent ==
    [form |-> <<>>, filingDate |-> <<>>, accessionNumber |-> <<>>,
     primaryDocument |-> <<>>]

NoSubmissions == [has_filings |-> FALSE, has_recent |-> FALSE, recent |-> EmptyRecent]

\* _check_first_time_filer not called
NoFirstTime == [is_first_time |-> FALSE, earliest_period |-> <<"-">>]

SelIdle ==
    /\ filing_date = <<>>
    /\ fq_target = None
    /\ fq_first = None
    /\ submissions = NoSubmissions
    /\ target = <<0, 0>>
    /\ sel_pc = "idle"
    /\ target_filings = <<>>
    /\ latest_filing = NoFiling
    /\ first_time = NoFirstTime

Pending == [kind |-> "pending", value |-> "", exc |-> "", cause |-> ""]

FetchIdle ==
    /\ clock = 0
    /\ last_request_time = 0
    /\ fetch_pc = "off"
    /\ fetch_op = "none"
    /\ attempt_number = 0
    /\ attempt_log = <<>>
    /\ fetch_result = Pending
    /\ request_result = "pending"
    /\ prev_sent = -1
    /\ last_sent = -1
    /\ calls = 0
    /\ ticks = 0

\* The keys callers use: "submissions_" + cik; the empty string is a key too.
CacheKeys == {"", "submissions_0000000001"}

\* A key without a file
NoFile ==
    [state |-> "absent", ts_kind |-> "missing", timestamp |-> 0, payload |-> "none"]

\* cache_last while the last step was no call of the cache
NoCacheOp ==
    [op |-> "none", key |-> "", kind |-> "none", data |-> NoFile, exc |-> "",
     entry |-> NoFile, others_kept |-> TRUE]

\* lookup_last while the last step was no _get_company_submissions call
NoLookup ==
    [cik |-> <<>>, requested |-> FALSE, fetch_ok |-> FALSE, entry |-> NoFile,
     last_ok |-> -1, value |-> "none"]

CacheIdle ==
    /\ cache_files = [k \in CacheKeys |-> NoFile]
    /\ cache_clock = 0
    /\ cache_last = NoCacheOp
    /\ lookup_last = NoLookup
    /\ last_ok_fetch = <<>>

\* An empty document: no tags, no rows
NoDocument ==
    [tags |-> {}, layout |-> "kv", wellformed |-> FALSE, xmldecl |-> FALSE,
     infotag100 |-> FALSE, cusip100 |-> FALSE, rows |-> <<>>]

ParseIdle ==
    /\ content = NoDocument
    /\ parse_pc = "off"
    /\ parse_path = "none"
    /\ holdings_df = <<>>
    /\ num_holdings = 0

\* process_funds not called
NoRequest ==
    [funds |-> <<>>, ciks |-> <<>>, quarter |-> <<>>,
     now |-> [year |-> 0, month |-> 0], only_first_time |-> FALSE,
     min_holdings |-> {}, max_holdings |-> {}, between_holdings |-> {}]

\* no fund processed yet
NoFundEnv ==
    [cached |-> "none", failed |-> FALSE, subs |-> NoSubmissions,
     doc_ok |-> FALSE, doc |-> NoDocument, save_ok |-> FALSE]

ProcIdle ==
    /\ proc_pc = "off"
    /\ request = NoRequest
    /\ quarter_str = <<>>
    /\ target_yq = <<0, 0>>
    /\ fund_list = <<>>
    /\ fund_idx = 0
    /\ fund_env = NoFundEnv
    /\ filing_summaries = <<>>
    /\ outcomes = <<>>
    /\ cache_sets = {}
    /\ saved_files = {}
    /\ net_requests = {}
    /\ name_ciks = <<>>

\* no helper called
NoFilterArgs ==
    [num_holdings |-> 0, min_holdings |-> {}, max_holdings |-> {},
     between_holdings |-> {}]

NoQuarterResult == [raised |-> FALSE, year |-> 0, quarter |-> 0, formatted |-> <<>>]

UtilIdle ==
    /\ util_pc = "off"
    /\ filter_args = NoFilterArgs
    /\ filter_passes = FALSE
    /\ quarter_text = <<>>
    /\ quarter_result = NoQuarterResult

\* The variables and idle values of the components other than the named one
notSel == <<fetchVars, cacheVars, parseVars, procVars, utilVars>>
notFetch == <<selVars, cacheVars, parseVars, procVars, utilVars>>
notCache == <<selVars, fetchVars, parseVars, procVars, utilVars>>
notParse == <<selVars, fetchVars, cacheVars, procVars, utilVars>>
notProc == <<selVars, fetchVars, cacheVars, parseVars, utilVars>>
notUtil == <<selVars, fetchVars, cacheVars, parseVars, procVars>>

SelOthersIdle == FetchIdle /\ CacheIdle /\ ParseIdle /\ ProcIdle /\ UtilIdle
FetchOthersIdle == SelIdle /\ CacheIdle /\ ParseIdle /\ ProcIdle /\ UtilIdle
CacheOthersIdle == SelIdle /\ FetchIdle /\ ParseIdle /\ ProcIdle /\ UtilIdle
ParseOthersIdle == SelIdle /\ FetchIdle /\ CacheIdle /\ ProcIdle /\ UtilIdle
ProcOthersIdle == SelIdle /\ FetchIdle /\ CacheIdle /\ ParseIdle /\ UtilIdle
UtilOthersIdle == SelIdle /\ FetchIdle /\ CacheIdle /\ ParseIdle /\ ProcIdle

(***************************************************************************)
(* Strings are sequences of one-character strings, so that slicing,        *)
(* splitting and lexicographic comparison are computed, not assumed.       *)
(***************************************************************************)
DigitChars == <<"0", "1", "2", "3", "4", "5", "6", "7", "8", "9">>

IsDigit(c) == \E i \in 1..10 : DigitChars[i] = c

DigitVal(c) == (CHOOSE i \in 1..10 : DigitChars[i] = c) - 1

\* Code point of a character, as far as the ordering of the characters used
\* here goes: '-' (45) sorts before '/' (47), the digits (48..57) and letters.
Ord(c) ==
    IF IsDigit(c) THEN 48 + DigitVal(c)
    ELSE IF c = "-" THEN 45
    ELSE IF c = "/" THEN 47
    ELSE 120

\* Python's str < str: lexicographic by code point, a proper prefix is smaller.
RECURSIVE StrLess(_, _)
StrLess(a, b) ==
    IF b = <<>> THEN FALSE
    ELSE IF a = <<>> THEN TRUE
    ELSE IF Ord(Head(a)) # Ord(Head(b)) THEN Ord(Head(a)) < Ord(Head(b))
    ELSE StrLess(Tail(a), Tail(b))

\* int() of a string of decimal digits
RECURSIVE DigitsToInt(_)
DigitsToInt(s) ==
    IF s = <<>> THEN 0
    ELSE 10 * DigitsToInt(SubSeq(s, 1, Len(s) - 1)) + DigitVal(s[Len(s)])

AllDigits(s) == \A i \in 1..Len(s) : IsDigit(s[i])

\* str.split(sep) for a one-character separator
RECURSIVE SplitOn(_, _)
SplitOn(s, sep) ==
    IF \A i \in 1..Len(s) : s[i] # sep THEN <<s>>
    ELSE LET k == CHOOSE i \in 1..Len(s) :
                      s[i] = sep /\ \A j \in 1..(i - 1) : s[j] # sep
         IN  <<SubSeq(s, 1, k - 1)>> \o SplitOn(SubSeq(s, k + 1, Len(s)), sep)

IsLeap(y) == (y % 4 = 0 /\ y % 100 # 0) \/ y % 400 = 0

DaysInMonth(y, m) ==
    IF m \in {4, 6, 9, 11} THEN 30
    ELSE IF m = 2 THEN (IF IsLeap(y) THEN 29 ELSE 28)
    ELSE 31

(***************************************************************************)
(* datetime.strptime(filing_date, '%Y-%m-%d'): %Y is exactly four digits,  *)
(* %m and %d one or two digits naming a month 1..12 and a day of that      *)
(* month; anything else raises ValueError (ok = FALSE).                    *)
(***************************************************************************)
Strptime(s) ==
    LET parts == SplitOn(s, "-")
        bad   == [ok |-> FALSE, year |-> 0, month |-> 0, day |-> 0]
    IN  IF Len(parts) # 3 THEN bad
        ELSE IF ~(AllDigits(parts[1]) /\ AllDigits(parts[2]) /\ AllDigits(parts[3]))
        THEN bad
        ELSE IF Len(parts[1]) # 4 \/ Len(parts[2]) \notin {1, 2}
                \/ Len(parts[3]) \notin {1, 2}
        THEN bad
        ELSE LET y == DigitsToInt(parts[1])
                 m == DigitsToInt(parts[2])
                 d == DigitsToInt(parts[3])
             IN  IF y < 1 \/ m \notin 1..12 THEN bad
                 ELSE IF d \notin 1..DaysInMonth(y, m) THEN bad
                 ELSE [ok |-> TRUE, year |-> y, month |-> m, day |-> d]

\* datetime < datetime for two parsed dates (time of day is always 00:00)
DateBefore(a, b) ==
    \/ a.year < b.year
    \/ a.year = b.year /\ a.month < b.month
    \/ a.year = b.year /\ a.month = b.month /\ a.day < b.day

(***************************************************************************)
(* The fiscal quarter of a parsed filing date, as _find_target_filings     *)
(* computes it: <<filing_year, filing_quarter>>.                           *)
(***************************************************************************)
FindTargetQuarter(dt) ==
    IF dt.month <= 3 THEN <<dt.year - 1, 4>>
    ELSE IF dt.month <= 6 THEN <<dt.year, 1>>
    ELSE IF dt.month <= 9 THEN <<dt.year, 2>>
    ELSE <<dt.year, 3>>

\* A plain calendar-quarter mapping, the slip the fiscal rule invites.
FirstTimeQuarter_Calendar(dt) ==
    IF dt.month <= 3 THEN <<dt.year, 1>>
    ELSE IF dt.month <= 6 THEN <<dt.year, 2>>
    ELSE IF dt.month <= 9 THEN <<dt.year, 3>>
    ELSE <<dt.year, 4>>

\* The same computation as _check_first_time_filer repeats it.
FirstTimeQuarter(dt) ==
    IF dt.month <= 3 THEN <<dt.year - 1, 4>>
    ELSE IF dt.month <= 6 THEN <<dt.year, 1>>
    ELSE IF dt.month <= 9 THEN <<dt.year, 2>>
    ELSE <<dt.year, 3>>

(***************************************************************************)
(* _find_target_filings: the parallel arrays of submissions.filings.recent *)
(* are walked index by index; a record is kept when its form is 13F-HR or  *)
(* 13F-HR/A, its date parses and its fiscal quarter is the target.         *)
(* The two HREF fields of a filing object are formatted from cik and       *)
(* accessionNumber only and are left out.                                  *)
(***************************************************************************)
ThirteenFForms == {"13F-HR", "13F-HR/A"}

RECURSIVE FindTargetLoop(_, _, _, _)
FindTargetLoop(recent, target_year, target_quarter, i) ==
    IF i > Len(recent.form) THEN <<>>
    ELSE
      LET rest == FindTargetLoop(recent, target_year, target_quarter, i + 1)
      IN  IF ~(i <= Len(recent.filingDate) /\ i <= Len(recent.accessionNumber))
          THEN rest
          ELSE IF recent.form[i] \notin ThirteenFForms THEN rest
          ELSE LET dt == Strptime(recent.filingDate[i])
               IN  IF ~dt.ok THEN rest          \* ValueError: warning, continue
                   ELSE IF FindTargetQuarter(dt) = <<target_year, target_quarter>>
                   THEN <<[form            |-> recent.form[i],
                           filingDate      |-> recent.filingDate[i],
                           accessionNumber |-> recent.accessionNumber[i],
                           primaryDocument |->
                               IF i <= Len(recent.primaryDocument)
                               THEN recent.primaryDocument[i] ELSE ""]>> \o rest
                   ELSE rest

FindTargetFilings(subs, target_year, target_quarter) ==
    IF ~subs.has_filings THEN <<>>
    ELSE IF ~subs.has_recent THEN <<>>
    ELSE FindTargetLoop(subs.recent, target_year, target_quarter, 1)

(***************************************************************************)
(* _get_latest_filing: sorted(filings, key=filingDate, reverse=True)[0].   *)
(* Python's sort is stable, also with reverse=True: among equal keys the   *)
(* original order is kept.  Insertion into a descending sequence after     *)
(* every element whose key is >= the new one does the same.                *)
(***************************************************************************)
RECURSIVE InsertDescending(_, _)
InsertDescending(sorted, f) ==
    IF sorted = <<>> THEN <<f>>
    ELSE IF StrLess(Head(sorted).filingDate, f.filingDate)
         THEN <<f>> \o sorted
         ELSE <<Head(sorted)>> \o InsertDescending(Tail(sorted), f)

RECURSIVE SortedNewestFirst(_)
SortedNewestFirst(filings) ==
    IF filings = <<>> THEN <<>>
    ELSE InsertDescending(
             SortedNewestFirst(SubSeq(filings, 1, Len(filings) - 1)),
             filings[Len(filings)])

\* The sort without reverse=True: the oldest filing comes first.
GetLatestFiling_Oldest(filings) ==
    IF filings = <<>> THEN NoFiling
    ELSE SortedNewestFirst(filings)[Len(filings)]

GetLatestFiling(filings) ==
    IF filings = <<>> THEN NoFiling
    ELSE SortedNewestFirst(filings)[1]

(***************************************************************************)
(* Inputs of the selector.                                                 *)
(***************************************************************************)
MaxFilings == 2          \* longest parallel array of a submission history
BaseYear   == 2023       \* first calendar year of the dates under test
NumYears   == 2          \* number of calendar years of the dates under test

\* str(n) for 0 <= n <= 9999, zero-padded to `width` characters
RECURSIVE IntToStr(_, _)
IntToStr(n, width) ==
    IF width <= 1 /\ n < 10 THEN <<DigitChars[n + 1]>>
    ELSE IntToStr(n \div 10, width - 1) \o <<DigitChars[(n % 10) + 1]>>

\* an ISO date string; with pad = FALSE month and day carry no leading zero
DateStr(y, m, d, pad) ==
    IntToStr(y, 4) \o <<"-">> \o IntToStr(m, IF pad THEN 2 ELSE 1)
                   \o <<"-">> \o IntToStr(d, IF pad THEN 2 ELSE 1)

\* SpecDates: every month of every year, first and last days, both spellings,
\* some of them no calendar date (2023-02-31), and strings that are no date.
AllDateStrs ==
    { DateStr(y, m, d, pad) : y \in BaseYear..(BaseYear + NumYears - 1),
                              m \in 1..12, d \in {1, 15, 31}, pad \in BOOLEAN }
    \cup { <<>>, <<"x">>, <<"2", "0", "2", "4", "-", "1", "3", "-", "0", "1">>,
           <<"2", "0", "2", "4", "/", "0", "5", "/", "0", "1">> }

\* SpecSelect: the filing dates a history is drawn from
FilingDatePool ==
    { DateStr(2024, 11, 1, TRUE), DateStr(2024, 11, 15, TRUE),
      DateStr(2024, 7, 1, FALSE), DateStr(2024, 2, 10, TRUE),
      <<"2", "0", "2", "4", "-", "1", "3", "-", "0", "1">> }

FormPool == {"13F-HR", "13F-HR/A", "13F-NT"}

AccessionPool == <<"acc1", "acc2", "acc3", "acc4">>
PrimaryDocPool == <<"doc1", "doc2", "doc3", "doc4">>

TargetPool == {<<2024, 3>>, <<2024, 2>>}

SeqsUpTo(S, n) == UNION { [1..k -> S] : k \in 0..n }

\* The payloads the submissions endpoint can deliver: no "filings" key, an
\* empty "recent" object, or four parallel arrays of any lengths.
SubmissionsPool ==
    { [has_filings |-> FALSE, has_recent |-> FALSE, recent |-> EmptyRecent],
      [has_filings |-> TRUE,  has_recent |-> FALSE, recent |-> EmptyRecent] }
    \cup
    { [has_filings |-> TRUE, has_recent |-> TRUE,
       recent |-> [form |-> f, filingDate |-> d,
                   accessionNumber |-> SubSeq(AccessionPool, 1, na),
                   primaryDocument |-> SubSeq(PrimaryDocPool, 1, np)]] :
        f \in SeqsUpTo(FormPool, MaxFilings),
        d \in SeqsUpTo(FilingDatePool, MaxFilings),
        na \in 0..MaxFilings, np \in 0..MaxFilings }

(***************************************************************************)
(* SpecDates: the fiscal-quarter mapping applied to one filing date by     *)
(* both places of the code that compute it.                                *)
(***************************************************************************)
InitDates ==
    /\ filing_date \in AllDateStrs
    /\ fq_target = None
    /\ fq_first = None
    /\ submissions = NoSubmissions
    /\ target = <<0, 0>>
    /\ sel_pc = "date"
    /\ target_filings = <<>>
    /\ latest_filing = NoFiling
    /\ first_time = NoFirstTime
    /\ SelOthersIdle

MapFilingDate ==
    /\ sel_pc = "date"
    /\ LET dt == Strptime(filing_date)
       IN  IF dt.ok
           THEN /\ fq_target' = FindTargetQuarter(dt)
                /\ fq_first' = FirstTimeQuarter(dt)
                /\ sel_pc' = "mapped"
           ELSE /\ UNCHANGED <<fq_target, fq_first>>
                /\ sel_pc' = "skipped"
    /\ UNCHANGED <<filing_date, submissions, target, target_filings, latest_filing,
                   first_time>>
    /\ UNCHANGED notSel

NextDates == MapFilingDate

SpecDates == InitDates /\ [][NextDates]_vars

(***************************************************************************)
(* SpecSelect: target-filing selection over one submission history.        *)
(***************************************************************************)
InitSelect ==
    /\ filing_date = <<>>
    /\ fq_target = None
    /\ fq_first = None
    /\ submissions \in SubmissionsPool
    /\ target \in TargetPool
    /\ sel_pc = "submissions"
    /\ target_filings = <<>>
    /\ latest_filing = NoFiling
    /\ first_time = NoFirstTime
    /\ SelOthersIdle

\* _process_single_fund, lines 190-198: find the target filings, then the latest
SelectTargetFiling ==
    /\ sel_pc = "submissions"
    /\ LET found == FindTargetFilings(submissions, target[1], target[2])
       IN  /\ target_filings' = found
           /\ latest_filing' = GetLatestFiling(found)
           /\ sel_pc' = IF found = <<>> THEN "no_filing" ELSE "selected"
    /\ UNCHANGED <<filing_date, fq_target, fq_first, submissions, target, first_time>>
    /\ UNCHANGED notSel

NextSelect == SelectTargetFiling

SpecSelect == InitSelect /\ [][NextSelect]_vars

(***************************************************************************)
(* Claims about the fiscal-quarter mapping and the target-filing selection *)
(***************************************************************************)
\* The mapping of section 4.4, written from its table.
ExpectedQuarter(y, m) ==
    IF m \in 1..3 THEN <<y - 1, 4>>
    ELSE IF m \in 4..6 THEN <<y, 1>>
    ELSE IF m \in 7..9 THEN <<y, 2>>
    ELSE <<y, 3>>

\* C9: for every parsable filing date the fiscal quarter is months 1-3 ->
\* (year-1, Q4), 4-6 -> (year, Q1), 7-9 -> (year, Q2), 10-12 -> (year, Q3),
\* and the target-filing selection and the first-time-filer detection both
\* compute exactly this quarter for the date.
C9_FiscalQuarterMapping ==
    \A y \in (BaseYear - 1)..(BaseYear + NumYears), m \in 1..12,
       d \in 1..31, pad \in BOOLEAN :
        (sel_pc # "date" /\ filing_date = DateStr(y, m, d, pad)
            /\ d <= DaysInMonth(y, m))
        => /\ sel_pc = "mapped"
           /\ fq_target = ExpectedQuarter(y, m)
           /\ fq_first = ExpectedQuarter(y, m)

\* C9 witness: a March filing was mapped to Q4 of the preceding year by both.
C9_Witness ==
    \E y \in BaseYear..(BaseYear + NumYears - 1) :
        /\ sel_pc = "mapped"
        /\ filing_date = DateStr(y, 3, 31, TRUE)
        /\ fq_target = <<y - 1, 4>>
        /\ fq_first = <<y - 1, 4>>

\* The indices of the history that name a record qualifying for the target:
\* present in the reconstructed records, form 13F-HR or 13F-HR/A, fiscal
\* quarter of the filing date equal to the target.
QualifyingIndices ==
    LET r == submissions.recent
    IN  { i \in 1..Len(r.form) :
            /\ submissions.has_filings /\ submissions.has_recent
            /\ i <= Len(r.filingDate) /\ i <= Len(r.accessionNumber)
            /\ r.form[i] \in {"13F-HR", "13F-HR/A"}
            /\ Strptime(r.filingDate[i]).ok
            /\ ExpectedQuarter(Strptime(r.filingDate[i]).year,
                               Strptime(r.filingDate[i]).month) = target }

\* C10: the selected filing is a record of the history whose form is exactly
\* 13F-HR or 13F-HR/A and whose fiscal quarter is the target, and no other
\* such record has a lexicographically greater filing-date string; when no
\* such record exists no filing is selected.
C10_LatestQualifyingSelected ==
    sel_pc \in {"selected", "no_filing"} =>
        IF QualifyingIndices = {}
        THEN latest_filing = NoFiling /\ sel_pc = "no_filing"
        ELSE /\ sel_pc = "selected"
             /\ latest_filing # NoFiling
             /\ \E i \in QualifyingIndices :
                    /\ latest_filing.form = submissions.recent.form[i]
                    /\ latest_filing.filingDate = submissions.recent.filingDate[i]
                    /\ latest_filing.accessionNumber
                           = submissions.recent.accessionNumber[i]
             /\ \A j \in QualifyingIndices :
                    ~StrLess(latest_filing.filingDate,
                             submissions.recent.filingDate[j])

\* C10 witness: two records qualify, the later-dated one is listed second and
\* is the one selected (the 2024-11-01 / 2024-11-15 case of section 8).
C10_Witness ==
    /\ sel_pc = "selected"
    /\ Cardinality(QualifyingIndices) >= 2
    /\ submissions.recent.filingDate[1] = DateStr(2024, 11, 1, TRUE)
    /\ submissions.recent.filingDate[2] = DateStr(2024, 11, 15, TRUE)
    /\ latest_filing.filingDate = DateStr(2024, 11, 15, TRUE)
    /\ latest_filing.accessionNumber = "acc2"

(***************************************************************************)
(*                       Fetch client (sec_client.py)                      *)
(***************************************************************************)
MaxRequestsPerSecond == 10     \* self.max_requests_per_second
CooldownMs == 5000             \* time.sleep(5) after an HTTP 429
StopAfterAttempt == 3          \* stop_after_attempt(3)
WaitMultiplier == 1            \* wait_exponential(multiplier=1, ...)
WaitMin == 4                   \* wait_exponential(min=4)
WaitMax == 10                  \* wait_exponential(max=10)

MaxCalls == 2                  \* client operations per behaviour
MaxTicks == 2                  \* idle periods per behaviour
StartClock == 1000             \* the clock when the client is constructed

Max2(a, b) == IF a >= b THEN a ELSE b
Min2(a, b) == IF a <= b THEN a ELSE b

RECURSIVE Pow2(_)
Pow2(n) == IF n <= 0 THEN 1 ELSE 2 * Pow2(n - 1)

\* min_delay = 1.0 / self.max_requests_per_second, in milliseconds
MinDelayMs == 1000 \div MaxRequestsPerSecond

\* What one request attempt can end in.  An empty body is a success.
Successes == {"ok", "ok_empty"}
Failures == {"http_429", "http_error", "transport_error"}
Outcomes == Successes \cup Failures

\* The exception class an attempt raises
ExceptionOf(outcome) ==
    IF outcome \in {"http_429", "http_error"} THEN "HTTPError" ELSE "ConnectionError"

\* The retry policy retries on success as well when the body is empty.
ShouldRetry_EmptyBody(outcome) == outcome \in Failures \cup {"ok_empty"}

\* retry=retry_if_exception_type((requests.RequestException, requests.HTTPError)):
\* every failure of session.request / raise_for_status is a RequestException.
ShouldRetry(outcome) == outcome \in Failures

\* _rate_limit without the sleep: it only stamps the time.
RateLimitSleep_None(current_time, last) == 0

\* _rate_limit: the time to sleep before the request may go out
RateLimitSleep(current_time, last) ==
    LET time_since_last == current_time - last
    IN  IF time_since_last < MinDelayMs THEN MinDelayMs - time_since_last ELSE 0

\* The handler of HTTPError without the sleep: it only re-raises.
Cooldown_None(outcome) == 0

\* except requests.HTTPError: time.sleep(5) when the status is 429, then raise
Cooldown(outcome) == IF outcome = "http_429" THEN CooldownMs ELSE 0

\* wait_exponential(multiplier=1, min=4, max=10) after attempt n, in ms
WaitExponentialMs(n) ==
    1000 * Max2(Max2(0, WaitMin), Min2(WaitMultiplier * Pow2(n - 1), WaitMax))

ClientOps == {"get_company_submissions", "get_filing_document_with_cik",
              "search_company_by_name"}

\* get_company_submissions and search_company_by_name wrap _make_request in
\* try/except Exception; the document fetchers do not.
SwallowsExceptions(op) ==
    op \in {"get_company_submissions", "search_company_by_name"}

\* What the operation returns for a response: response.json() of an empty
\* body raises inside get_company_submissions and is turned into {}; the
\* other operations return the empty text / an empty list of matches.
ReturnFor(op, outcome) ==
    [kind |-> "return",
     value |-> IF outcome = "ok" THEN "payload" ELSE "empty",
     exc |-> "", cause |-> ""]

\* What the caller gets once the retry policy gives up: tenacity raises
\* RetryError (reraise is not set) chained to the last attempt's exception;
\* the two wrapping operations log it and return {} / [].
GiveUpFor(op, outcome) ==
    IF SwallowsExceptions(op)
    THEN [kind |-> "return", value |-> "empty", exc |-> "", cause |-> ""]
    ELSE [kind |-> "raise", value |-> "", exc |-> "RetryError",
          cause |-> ExceptionOf(outcome)]

\* SECClient.__init__
InitFetch ==
    /\ clock = StartClock
    /\ last_request_time = 0
    /\ fetch_pc = "idle"
    /\ fetch_op = "none"
    /\ attempt_number = 0
    /\ attempt_log = <<>>
    /\ fetch_result = Pending
    /\ request_result = "pending"
    /\ prev_sent = -1
    /\ last_sent = -1
    /\ calls = 0
    /\ ticks = 0
    /\ FetchOthersIdle

\* Time passes while no call is in progress: a moment, or an idle period.
Tick ==
    /\ fetch_pc = "idle"
    /\ ticks < MaxTicks
    /\ \E d \in {30, 1000} : clock' = clock + d
    /\ ticks' = ticks + 1
    /\ UNCHANGED <<last_request_time, fetch_pc, fetch_op, attempt_number,
                   attempt_log, fetch_result, request_result, prev_sent,
                   last_sent, calls>>
    /\ UNCHANGED notFetch

\* A caller invokes one of the client's operations.
StartCall ==
    /\ fetch_pc = "idle"
    /\ calls < MaxCalls
    /\ \E op \in ClientOps : fetch_op' = op
    /\ fetch_pc' = "attempt"
    /\ attempt_number' = 1
    /\ attempt_log' = <<>>
    /\ fetch_result' = Pending
    /\ request_result' = "pending"
    /\ calls' = calls + 1
    /\ UNCHANGED <<clock, last_request_time, prev_sent, last_sent, ticks>>
    /\ UNCHANGED notFetch

\* One run of _make_request's body: _rate_limit, the request, and what the
\* retry policy and the calling operation do with its outcome.
Attempt ==
    /\ fetch_pc = "attempt"
    /\ \E outcome \in Outcomes, duration \in {0, 30} :
         LET sleep_time == RateLimitSleep(clock, last_request_time)
             sent       == clock + sleep_time
             cooldown   == Cooldown(outcome)
         IN  /\ last_request_time' = sent
             /\ prev_sent' = last_sent
             /\ last_sent' = sent
             /\ clock' = sent + duration + cooldown
             /\ attempt_log' = Append(attempt_log, outcome)
             /\ IF ~ShouldRetry(outcome)
                THEN /\ fetch_pc' = "idle"
                     /\ fetch_result' = ReturnFor(fetch_op, outcome)
                     /\ request_result' = "response"
                ELSE IF attempt_number >= StopAfterAttempt
                THEN /\ fetch_pc' = "idle"
                     /\ fetch_result' = GiveUpFor(fetch_op, outcome)
                     /\ request_result' = "RetryError"
                ELSE /\ fetch_pc' = "backoff"
                     /\ UNCHANGED <<fetch_result, request_result>>
    /\ UNCHANGED <<fetch_op, attempt_number, calls, ticks>>
    /\ UNCHANGED notFetch

\* The retry policy sleeps, then runs _make_request's body again.
Backoff ==
    /\ fetch_pc = "backoff"
    /\ clock' = clock + WaitExponentialMs(attempt_number)
    /\ attempt_number' = attempt_number + 1
    /\ fetch_pc' = "attempt"
    /\ UNCHANGED <<last_request_time, fetch_op, attempt_log, fetch_result,
                   request_result, prev_sent, last_sent, calls, ticks>>
    /\ UNCHANGED notFetch

NextFetch == Tick \/ StartCall \/ Attempt \/ Backoff

SpecFetch == InitFetch /\ [][NextFetch]_vars

(***************************************************************************)
(* Claims about the fetch client                                           *)
(***************************************************************************)
\* C4: a single fetch call makes at most 3 request attempts; an attempt is
\* followed by another attempt only if it ended in a transport-level failure
\* or an HTTP error status; a successful response, also one with an empty
\* body, ends the call at once.
C4_AtMostThreeAttempts ==
    /\ Len(attempt_log) <= 3
    /\ \A i \in 1..(Len(attempt_log) - 1) :
           attempt_log[i] \in {"http_429", "http_error", "transport_error"}
    /\ fetch_pc = "backoff" =>
           attempt_log[Len(attempt_log)]
               \in {"http_429", "http_error", "transport_error"}
    /\ (attempt_log # <<>> /\ attempt_log[Len(attempt_log)] \in {"ok", "ok_empty"})
           => /\ fetch_pc = "idle"
              /\ fetch_result.kind = "return"

\* C4 witness: a call ended by a successful empty response on its third attempt.
C4_Witness ==
    /\ fetch_pc = "idle"
    /\ Len(attempt_log) = 3
    /\ attempt_log[3] = "ok_empty"
    /\ fetch_result.kind = "return"

\* C5: when every attempt of a fetch fails, the caller of the client's
\* operation receives the underlying transport/HTTP error; no operation
\* (submission history, filing document, company search) turns the
\* exhausted-retries failure into a normal-looking result.
C5_FinalFailureSurfaces ==
    (/\ fetch_pc = "idle"
     /\ attempt_log # <<>>
     /\ \A i \in 1..Len(attempt_log) : attempt_log[i] \notin {"ok", "ok_empty"})
    => /\ fetch_result.kind = "raise"
       /\ fetch_result.exc \in {"HTTPError", "ConnectionError"}

\* C6: at least 100 ms elapse between any two consecutive outbound requests
\* of one client, between retry attempts of one call as well as between
\* calls, also right after an idle period.
C6_MinimumSpacing ==
    /\ prev_sent # -1 => last_sent - prev_sent >= 100
    /\ last_sent # -1 => last_request_time = last_sent

\* C6 witness: after an idle period a call is answered at once and the next
\* call follows immediately; its request was held back to the 100 ms mark.
C6_Witness ==
    /\ ticks >= 1
    /\ calls = 2
    /\ Len(attempt_log) = 1
    /\ prev_sent >= StartClock + 1000
    /\ last_sent = prev_sent + 100

(***************************************************************************)
(*                         Result cache (utils.py)                         *)
(*                                                                         *)
(* The file of a key (named by the md5 of the key, so distinct keys have   *)
(* distinct files) is described by what Cache.get's statements make of it: *)
(*   state     "absent", "unreadable" (open() raises OSError),             *)
(*             "invalid_json" (json.load raises JSONDecodeError),          *)
(*             "scalar_json" (valid JSON that is a number, not an object), *)
(*             "object" (a JSON object)                                    *)
(*   ts_kind   of an object: "missing", "naive_iso" (what Cache.set        *)
(*             writes), "aware_iso" (an ISO string with a UTC offset),     *)
(*             "not_iso" (another string), "not_str" (a number)            *)
(*   timestamp the time a naive_iso / aware_iso timestamp names, in hours  *)
(***************************************************************************)
HoursPerDay == 24
MaxCacheClock == 26       \* the cache clock stops here

CachePayloads == {"submissions", "empty"}   \* a history, or {}

DamagedFiles ==
    { [state |-> st, ts_kind |-> "missing", timestamp |-> 0, payload |-> "none"] :
        st \in {"unreadable", "invalid_json", "scalar_json"} }
    \cup
    { [state |-> "object", ts_kind |-> tk, timestamp |-> 0, payload |-> "submissions"] :
        tk \in {"missing", "aware_iso", "not_iso", "not_str"} }

\* timedelta.days: whole days, rounded down
Days(hours) == hours \div HoursPerDay

\* The expiry test counts an entry of exactly one day as fresh.
IsFresh_Inclusive(now, cache_time) == Days(now - cache_time) <= 1

\* (datetime.now() - cache_time).days < 1
IsFresh(now, cache_time) == Days(now - cache_time) < 1

\* The first exception the statements of Cache.get's try block raise on a
\* file that exists, "none" if they run through.
GetException(file) ==
    IF file.state = "unreadable" THEN "PermissionError"          \* open()
    ELSE IF file.state = "invalid_json" THEN "JSONDecodeError"   \* json.load
    ELSE IF file.state = "scalar_json" THEN "TypeError"          \* 'timestamp' in 5
    ELSE IF file.ts_kind = "missing" THEN "none"
    ELSE IF file.ts_kind = "not_str" THEN "TypeError"            \* fromisoformat(123)
    ELSE IF file.ts_kind = "not_iso" THEN "ValueError"           \* fromisoformat("x")
    ELSE IF file.ts_kind = "aware_iso" THEN "TypeError"          \* naive - aware
    ELSE "none"

\* except (json.JSONDecodeError, ValueError)
GetCatches(exc) == exc \in {"JSONDecodeError", "ValueError"}

\* Cache.get(key): [kind, data, exc]
CacheGetResult(file, now) ==
    LET absent == [kind |-> "absent", data |-> NoFile, exc |-> ""]
        exc    == GetException(file)
    IN  IF file.state = "absent" THEN absent          \* cache_path.exists()
        ELSE IF exc # "none"
        THEN IF GetCatches(exc) THEN absent
             ELSE [kind |-> "raise", data |-> NoFile, exc |-> exc]
        ELSE IF file.ts_kind = "missing" THEN absent
        ELSE IF IsFresh(now, file.timestamp)
        THEN [kind |-> "data", data |-> file, exc |-> ""]
        ELSE absent

InitCache ==
    /\ cache_files = [k \in CacheKeys |-> NoFile]
    /\ cache_clock = 0
    /\ cache_last = NoCacheOp
    /\ lookup_last = NoLookup
    /\ last_ok_fetch = <<>>
    /\ CacheOthersIdle

\* Cache.set(key, data): the payload is stamped with the current time and
\* written to the key's file.
CacheSet ==
    /\ \E key \in CacheKeys, payload \in CachePayloads :
         /\ cache_files' =
                [cache_files EXCEPT ![key] =
                    [state |-> "object", ts_kind |-> "naive_iso",
                     timestamp |-> cache_clock, payload |-> payload]]
         /\ cache_last' = [op |-> "set", key |-> key, kind |-> "none",
                           data |-> NoFile, exc |-> "",
                           entry |-> cache_files[key], others_kept |-> TRUE]
    /\ UNCHANGED cache_clock
    /\ UNCHANGED <<lookup_last, last_ok_fetch>>
    /\ UNCHANGED notCache

\* Cache.get(key)
CacheGet ==
    /\ \E key \in CacheKeys :
         LET r == CacheGetResult(cache_files[key], cache_clock)
         IN  cache_last' = [op |-> "get", key |-> key, kind |-> r.kind,
                            data |-> r.data, exc |-> r.exc,
                            entry |-> cache_files[key], others_kept |-> TRUE]
    /\ UNCHANGED <<cache_files, cache_clock>>
    /\ UNCHANGED <<lookup_last, last_ok_fetch>>
    /\ UNCHANGED notCache

\* Time passes: an hour, or most of a day.
CacheTick ==
    /\ \E d \in {1, 23} :
         /\ cache_clock + d <= MaxCacheClock
         /\ cache_clock' = cache_clock + d
    /\ cache_last' = NoCacheOp
    /\ UNCHANGED cache_files
    /\ UNCHANGED <<lookup_last, last_ok_fetch>>
    /\ UNCHANGED notCache

\* The storage changes behind the cache's back: a write cut short, a file
\* from another tool, permissions taken away.
CacheDamage ==
    /\ \E key \in CacheKeys, f \in DamagedFiles :
         cache_files' = [cache_files EXCEPT ![key] = f]
    /\ cache_last' = NoCacheOp
    /\ UNCHANGED cache_clock
    /\ UNCHANGED <<lookup_last, last_ok_fetch>>
    /\ UNCHANGED notCache

\* Cache.clear(key): `if key:` sends None and "" alike to the branch that
\* unlinks every *.json file of the cache directory; key_arg is the set of
\* the key given, empty for clear()
ClearedFiles(files, key_arg) ==
    IF key_arg # {} /\ key_arg # {""}
    THEN [k \in DOMAIN files |-> IF k \in key_arg THEN NoFile ELSE files[k]]
    ELSE [k \in DOMAIN files |-> NoFile]

CacheClear ==
    /\ \E key_arg \in {{}} \cup { {k} : k \in CacheKeys } :
         /\ cache_files' = ClearedFiles(cache_files, key_arg)
         /\ cache_last' =
                [op |-> "clear",
                 key |-> IF key_arg = {} THEN "" ELSE CHOOSE k \in key_arg : TRUE,
                 kind |-> IF key_arg = {} THEN "no_key" ELSE "key",
                 data |-> NoFile, exc |-> "",
                 entry |-> IF key_arg = {} THEN NoFile
                           ELSE cache_files[CHOOSE k \in key_arg : TRUE],
                 others_kept |->
                     \A k \in CacheKeys \ key_arg : cache_files'[k] = cache_files[k]]
    /\ UNCHANGED cache_clock
    /\ UNCHANGED <<lookup_last, last_ok_fetch>>
    /\ UNCHANGED notCache

NextCache == CacheSet \/ CacheGet \/ CacheTick \/ CacheDamage \/ CacheClear

SpecCache == InitCache /\ [][NextCache]_vars

(***************************************************************************)
(* Claims about the result cache                                           *)
(***************************************************************************)
\* C7: Cache.get(key) returns absent whenever the entry's stored timestamp is
\* more than 24 hours before the current time, returns the stored payload
\* when the entry is younger than 24 hours, and leaves the file of an
\* expired entry on disk unchanged.
C7_TtlExpiry ==
    cache_last.op = "get" =>
        LET entry == cache_last.entry
            age   == cache_clock - entry.timestamp
        IN  (entry.state = "object" /\ entry.ts_kind = "naive_iso") =>
                /\ age > 24 => cache_last.kind = "absent"
                /\ age < 24 => /\ cache_last.kind = "data"
                               /\ cache_last.data.payload = entry.payload
                /\ cache_files[cache_last.key] = entry

\* C7 witness: a get of an entry stamped more than 24 hours ago returned
\* absent and the entry's file is still there.
C7_Witness ==
    /\ cache_last.op = "get"
    /\ cache_last.kind = "absent"
    /\ cache_files[cache_last.key].state = "object"
    /\ cache_files[cache_last.key].ts_kind = "naive_iso"
    /\ cache_clock - cache_files[cache_last.key].timestamp > 24

\* C8: Cache.get never propagates an error: whatever the entry's file holds
\* (invalid JSON, no timestamp, a timestamp that is no ISO string or no
\* string at all, an unreadable file), it returns absent.
C8_GetNeverRaises ==
    cache_last.op = "get" =>
        /\ cache_last.kind # "raise"
        /\ (cache_last.entry.state # "object"
            \/ cache_last.entry.ts_kind # "naive_iso")
               => cache_last.kind = "absent"

(***************************************************************************)
(*                       Document parser (parser.py)                       *)
(*                                                                         *)
(* A raw document is described by what the parser's text probes find:      *)
(*   tags        the tag variants whose start and end tag both occur:      *)
(*               1 = ns1:informationTable, 2 = informationTable,           *)
(*               3 = ns1:infoTable                                         *)
(*   layout      how the holdings are written: "xml" (row elements with    *)
(*               namespaced field elements), "html" (a table), "kv"        *)
(*               (key: value lines)                                        *)
(*   wellformed  whether ET.fromstring accepts the text handed to it       *)
(*   xmldecl     the text starts with <?xml                                *)
(*   infotag100  <informationtable occurs in its first 100 characters      *)
(*   cusip100    nameofissuer or cusip occurs in its first 100 characters  *)
(*   rows        the holdings rows in document order; a row's value is its *)
(*               position, so that rows can be told apart                  *)
(* Identifier, issuer and value texts are character sequences.             *)
(***************************************************************************)
MaxRows == 2              \* rows of a document

\* a missing value of a pandas column
NaN == <<"NaN">>

IsAlnum(c) == IsDigit(c) \/ c \in {"A", "B", "X"}

\* str.replace(r'[^A-Za-z0-9]', '', regex=True)
CleanCusip(text) == SelectSeq(text, IsAlnum)

\* safe_float: the number a text denotes, 0 for a text that denotes none
SafeFloat(text) ==
    IF text = <<>> \/ ~AllDigits(text) THEN 0 ELSE DigitsToInt(text)

\* pd.to_numeric(errors='coerce').fillna(0)
ToNumeric(cell) ==
    IF cell = NaN \/ cell = <<>> \/ ~AllDigits(cell) THEN 0 ELSE DigitsToInt(cell)

\* str.strip()
RECURSIVE Strip(_)
Strip(text) ==
    IF text = <<>> THEN <<>>
    ELSE IF Head(text) = " " THEN Strip(Tail(text))
    ELSE IF text[Len(text)] = " " THEN Strip(SubSeq(text, 1, Len(text) - 1))
    ELSE text

\* a voting-authority value: an int, or the str a caller passed as default
IntCell(n) == [is_int |-> TRUE, val |-> n, text |-> ""]

StrCell(t) == [is_int |-> FALSE, val |-> 0, text |-> t]

\* the texts int(float(value)) converts: digits with an optional sign
IsIntText(text) ==
    /\ text # <<>>
    /\ IF Head(text) = "-" THEN Tail(text) # <<>> /\ AllDigits(Tail(text))
       ELSE AllDigits(text)

TextToInt(text) ==
    IF Head(text) = "-" THEN 0 - DigitsToInt(Tail(text)) ELSE DigitsToInt(text)

\* safe_int: the default for None, '' and for a text int(float()) rejects
SafeInt(value, default) ==
    IF value = <<>> THEN default
    ELSE IF IsIntText(value) THEN IntCell(TextToInt(value))
    ELSE default

\* pd.to_numeric(errors='coerce').fillna(0).astype(int)
ToNumericInt(cell) ==
    IF cell = NaN \/ ~IsIntText(cell) THEN IntCell(0) ELSE IntCell(TextToInt(cell))

\* `word in value.lower()`
Mentions(value, word) ==
    \E i \in 1..Len(value) :
        /\ i + Len(word) - 1 <= Len(value)
        /\ SubSeq(value, i, i + Len(word) - 1) = word

CusipPool == { <<"A", "1">>, <<"A", "-", "1">>, <<"B", "2">>, <<"-">>, <<>> }

\* the text of a voting-authority element, cell or line
VotingPool == { <<"5">>, <<"-", "5">>, <<"s", "o", "l", "e">>, <<>> }

\* the text of the Sole sub-element of a voting-authority element; the
\* Shared and None sub-elements are absent
SolePool == { <<"7">>, <<>> }

\* the rows whose voting text is drawn from the pool (the later ones have none)
MaxVotingRows == 1
IssuerPool == { <<"X">>, <<>> }

RowSeqs ==
    UNION { { [i \in 1..k |-> [cusip |-> cs[i], issuer |-> iss[i],
                                 value |-> IntToStr(i, 1),
                                 voting |-> IF i <= MaxVotingRows THEN vs[i]
                                            ELSE <<>>,
                                 sole |-> IF i <= MaxVotingRows THEN ss[i]
                                          ELSE <<>>]] :
                cs \in [1..k -> CusipPool], iss \in [1..k -> IssuerPool],
                vs \in [1..(IF k < MaxVotingRows THEN k ELSE MaxVotingRows)
                            -> VotingPool],
                ss \in [1..(IF k < MaxVotingRows THEN k ELSE MaxVotingRows)
                            -> SolePool] } :
            k \in 0..MaxRows }

Layouts == {"xml", "html", "kv"}

\* only an XML document nests sub-elements under a voting-authority element
Documents ==
    { d \in [tags : SUBSET {1, 2, 3}, layout : Layouts, wellformed : BOOLEAN,
             xmldecl : BOOLEAN, infotag100 : BOOLEAN, cusip100 : BOOLEAN,
             rows : RowSeqs] :
        d.layout # "xml" => \A i \in 1..Len(d.rows) : d.rows[i].sole = <<>> }

(***************************************************************************)
(* _extract_information_table_section: the first tag variant found wins.   *)
(* The slice starts at the variant's start tag, so it no longer starts     *)
(* with an XML declaration; the slice of variant 2 starts with             *)
(* <informationTable; the slice of variant 3 ends at the first             *)
(* </ns1:infoTable> and so holds the first row only, as the root element.  *)
(***************************************************************************)
SectionVariant(doc) ==
    IF 1 \in doc.tags THEN 1
    ELSE IF 2 \in doc.tags THEN 2
    ELSE IF 3 \in doc.tags THEN 3
    ELSE 0

ExtractInformationTableSection(doc) ==
    LET v == SectionVariant(doc)
    IN  [variant    |-> v,
         layout     |-> doc.layout,
         wellformed |-> doc.wellformed,
         xmldecl    |-> IF v = 0 THEN doc.xmldecl ELSE FALSE,
         infotag100 |-> IF v = 2 THEN TRUE ELSE doc.infotag100,
         cusip100   |-> doc.cusip100,
         rows       |-> IF v = 3 THEN SubSeq(doc.rows, 1, Min2(1, Len(doc.rows)))
                        ELSE doc.rows]

\* _detect_file_type
DetectFileType(text) ==
    IF text.xmldecl \/ text.infotag100 THEN "xml"
    ELSE IF text.cusip100 THEN "txt"
    ELSE "xml"

(***************************************************************************)
(* _clean_dataframe                                                        *)
(***************************************************************************)
HasRequired(row) == row.cusip # NaN /\ row.issuer_name # NaN

\* the rows whose identifier occurs in no earlier row
RECURSIVE DropDuplicates(_)
DropDuplicates(df) ==
    IF df = <<>> THEN <<>>
    ELSE LET init == DropDuplicates(SubSeq(df, 1, Len(df) - 1))
             last == df[Len(df)]
         IN  IF \E i \in 1..(Len(df) - 1) : df[i].cusip = last.cusip
             THEN init ELSE Append(init, last)

CleanDataframe(df) ==
    LET kept    == SelectSeq(df, HasRequired)                    \* dropna
        cleaned == [i \in 1..Len(kept) |->
                       [cusip       |-> CleanCusip(kept[i].cusip),
                        issuer_name |-> Strip(kept[i].issuer_name),
                        value_usd   |-> ToNumeric(kept[i].value_usd),
                        voting_authority_sole   |->
                            ToNumericInt(kept[i].voting_authority_sole),
                        voting_authority_shared |->
                            ToNumericInt(kept[i].voting_authority_shared),
                        voting_authority_none   |->
                            ToNumericInt(kept[i].voting_authority_none)]]
    IN  DropDuplicates(cleaned)

(***************************************************************************)
(* _normalize_dataframe: a column name is described by the keyword         *)
(* fragments it contains; the first test of the chain that matches gives   *)
(* the canonical column, and a later column of the same canonical name     *)
(* overwrites an earlier one.                                              *)
(***************************************************************************)
ColumnFor(col) ==
    IF "cusip" \in col THEN "cusip"
    ELSE IF col \cap {"issuer", "name", "company"} # {} THEN "issuer_name"
    ELSE IF col \cap {"class", "title", "security"} # {} THEN "class_title"
    ELSE IF "value" \in col THEN "value_usd"
    ELSE IF col \cap {"shares", "amount", "quantity"} # {} THEN "ssh_prnamt"
    ELSE IF "type" \in col THEN "ssh_prnamt_type"
    ELSE IF col \cap {"put", "call"} # {} THEN "put_call"
    ELSE IF "discretion" \in col THEN "investment_discretion"
    ELSE IF "manager" \in col THEN "other_managers"
    ELSE IF "voting" \in col /\ "sole" \in col THEN "voting_authority_sole"
    ELSE IF "voting" \in col /\ "shared" \in col THEN "voting_authority_shared"
    ELSE IF "voting" \in col /\ "none" \in col THEN "voting_authority_none"
    ELSE "unmatched"

SetMax(S) == CHOOSE x \in S : \A y \in S : y <= x

\* the cell of a raw row that ends up in canonical column `canon`
NormalizedCell(columns, cells, canon) ==
    LET from == { i \in 1..Len(columns) : ColumnFor(columns[i]) = canon }
    IN  IF from = {} THEN NaN ELSE cells[SetMax(from)]

NormalizeDataframe(columns, rows) ==
    CleanDataframe(
        [i \in 1..Len(rows) |->
            [cusip       |-> NormalizedCell(columns, rows[i], "cusip"),
             issuer_name |-> NormalizedCell(columns, rows[i], "issuer_name"),
             value_usd   |-> NormalizedCell(columns, rows[i], "value_usd"),
             voting_authority_sole   |->
                 NormalizedCell(columns, rows[i], "voting_authority_sole"),
             voting_authority_shared |->
                 NormalizedCell(columns, rows[i], "voting_authority_shared"),
             voting_authority_none   |->
                 NormalizedCell(columns, rows[i], "voting_authority_none")]])

(***************************************************************************)
(* _parse_xml and _extract_holding_from_xml.  Row elements are found below *)
(* the root only (a section cut by tag variant 3 has the row as its root), *)
(* and fields are read from namespaced elements only.  The holdings are    *)
(* returned as collected: this path does not call _clean_dataframe.        *)
(***************************************************************************)
InfoTables(text) ==
    IF text.layout = "xml" /\ text.variant # 3 THEN text.rows ELSE <<>>

\* the holding of one row element, or nothing when a required field is empty
ExtractHoldingFromXml(info_table) ==
    LET holding == [cusip       |-> Strip(info_table.cusip),
                    issuer_name |-> Strip(info_table.issuer),
                    value_usd   |-> SafeFloat(Strip(info_table.value)),
                    voting_authority_sole   |->
                        SafeInt(Strip(info_table.voting), StrCell("sole")),
                    voting_authority_shared |->
                        SafeInt(Strip(info_table.voting), StrCell("shared")),
                    voting_authority_none   |->
                        SafeInt(Strip(info_table.voting), StrCell("none"))]
    IN  IF holding.cusip = <<>> \/ holding.issuer_name = <<>> THEN <<>>
        ELSE <<holding>>

RECURSIVE XmlHoldings(_)
XmlHoldings(info_tables) ==
    IF info_tables = <<>> THEN <<>>
    ELSE ExtractHoldingFromXml(Head(info_tables)) \o XmlHoldings(Tail(info_tables))

(***************************************************************************)
(* _parse_html_table: the first table row gives the headers, a data row is *)
(* kept when it has at least as many cells as there are headers, and       *)
(* dict(zip(headers, cells)) pairs them in order.                          *)
(***************************************************************************)
HtmlHeaders ==
    << {"cusip"}, {"name", "issuer"}, {"value"}, {"voting", "sole"},
       {"voting", "shared"}, {"voting", "none"} >>

HtmlCells(row) ==
    << Strip(row.cusip), Strip(row.issuer), Strip(row.value), Strip(row.voting),
       Strip(row.voting), Strip(row.voting) >>

ParseHtmlTable(text) ==
    LET headers == HtmlHeaders
        data    == [i \in 1..Len(text.rows) |-> HtmlCells(text.rows[i])]
        HasAllCells(cells) == Len(cells) >= Len(headers)
        rows    == SelectSeq(data, HasAllCells)
    IN  IF rows = <<>> THEN <<>> ELSE NormalizeDataframe(headers, rows)

(***************************************************************************)
(* _parse_structured_text: key: value lines.  A key is described by the    *)
(* keyword fragments it contains.  The lines of an XML document start with *)
(* a tag, so the text before their first colon is the tag prefix, which    *)
(* holds no keyword.  A value is kept as its digits up to pd.to_numeric.   *)
(***************************************************************************)
RECURSIVE KvLines(_, _)
KvLines(layout, rows) ==
    IF rows = <<>> THEN <<>>
    ELSE LET r == Head(rows)
         IN  (IF layout = "kv"
              THEN << [key |-> {"cusip"}, value |-> Strip(r.cusip)],
                      [key |-> {"name", "issuer"}, value |-> Strip(r.issuer)],
                      [key |-> {"value"}, value |-> Strip(r.value)],
                      [key |-> {"voting"}, value |-> Strip(r.voting)] >>
              ELSE << [key |-> {}, value |-> Strip(r.cusip)],
                      [key |-> {}, value |-> Strip(r.issuer)],
                      [key |-> {}, value |-> Strip(r.value)],
                      [key |-> {}, value |-> Strip(r.voting)] >>)
             \o KvLines(layout, Tail(rows))

\* the dictionary with no keys
EmptyHolding ==
    [cusip |-> NaN, issuer_name |-> NaN, value_usd |-> NaN,
     voting_authority_sole |-> NaN, voting_authority_shared |-> NaN,
     voting_authority_none |-> NaN]

\* the voting branch: the field the value names is set to 1
VotingHolding(current_holding, value) ==
    IF Mentions(value, <<"s", "o", "l", "e">>)
    THEN [current_holding EXCEPT !.voting_authority_sole = <<"1">>]
    ELSE IF Mentions(value, <<"s", "h", "a", "r", "e", "d">>)
    THEN [current_holding EXCEPT !.voting_authority_shared = <<"1">>]
    ELSE IF Mentions(value, <<"n", "o", "n", "e">>)
    THEN [current_holding EXCEPT !.voting_authority_none = <<"1">>]
    ELSE current_holding

\* _is_valid_holding: both required keys present with a non-empty value
IsValidHolding(holding) ==
    /\ holding.cusip # NaN /\ holding.cusip # <<>>
    /\ holding.issuer_name # NaN /\ holding.issuer_name # <<>>

RECURSIVE StructuredTextLoop(_, _, _)
StructuredTextLoop(lines, current_holding, holdings) ==
    IF lines = <<>>
    THEN IF current_holding # EmptyHolding /\ IsValidHolding(current_holding)
         THEN Append(holdings, current_holding) ELSE holdings
    ELSE LET line == Head(lines)
         IN  IF "cusip" \in line.key
             THEN IF current_holding.cusip # NaN
                  THEN StructuredTextLoop(Tail(lines),
                           [EmptyHolding EXCEPT !.cusip = line.value],
                           IF IsValidHolding(current_holding)
                           THEN Append(holdings, current_holding) ELSE holdings)
                  ELSE StructuredTextLoop(Tail(lines),
                           [current_holding EXCEPT !.cusip = line.value], holdings)
             ELSE IF "issuer" \in line.key \/ "name" \in line.key
             THEN StructuredTextLoop(Tail(lines),
                      [current_holding EXCEPT !.issuer_name = line.value], holdings)
             ELSE IF "class" \in line.key \/ "title" \in line.key
             THEN StructuredTextLoop(Tail(lines), current_holding, holdings)
             ELSE IF "value" \in line.key
             THEN StructuredTextLoop(Tail(lines),
                      [current_holding EXCEPT !.value_usd = line.value], holdings)
             ELSE IF "voting" \in line.key
             THEN StructuredTextLoop(Tail(lines),
                      VotingHolding(current_holding, line.value), holdings)
             ELSE StructuredTextLoop(Tail(lines), current_holding, holdings)

ParseStructuredText(text) ==
    LET holdings == StructuredTextLoop(KvLines(text.layout, text.rows),
                                       EmptyHolding, <<>>)
        columns  == << {"cusip"}, {"issuer", "name"}, {"value"},
                       {"voting", "authority", "sole"},
                       {"voting", "authority", "shared"},
                       {"voting", "authority", "none"} >>
        rows     == [i \in 1..Len(holdings) |->
                        << holdings[i].cusip, holdings[i].issuer_name,
                           holdings[i].value_usd,
                           holdings[i].voting_authority_sole,
                           holdings[i].voting_authority_shared,
                           holdings[i].voting_authority_none >>]
    IN  IF holdings = <<>> THEN <<>> ELSE NormalizeDataframe(columns, rows)

\* _parse_txt: an HTML table if the text has one, else structured text
ParseTxt(text) ==
    IF text.layout = "html"
    THEN [path |-> "html", df |-> ParseHtmlTable(text), raised |-> FALSE]
    ELSE [path |-> "text", df |-> ParseStructuredText(text), raised |-> FALSE]

\* An XML parser whose parse error ends in an empty table.
ParseXml_EmptyOnError(text) ==
    IF text.wellformed
    THEN [path |-> "xml", df |-> XmlHoldings(InfoTables(text)), raised |-> FALSE]
    ELSE [path |-> "xml", df |-> <<>>, raised |-> FALSE]

\* An XML parser whose parse error leaves the function.
ParseXml_Reraise(text) ==
    IF text.wellformed
    THEN [path |-> "xml", df |-> XmlHoldings(InfoTables(text)), raised |-> FALSE]
    ELSE [path |-> "xml", df |-> <<>>, raised |-> TRUE]

\* _parse_xml: ET.fromstring raises ParseError on text that is not
\* well-formed; the handler falls back to _parse_txt
ParseXml(text) ==
    IF text.wellformed
    THEN [path |-> "xml", df |-> XmlHoldings(InfoTables(text)), raised |-> FALSE]
    ELSE ParseTxt(text)

\* parse_information_table with file_type = 'auto'
ParseInformationTable(doc) ==
    LET extracted_content == ExtractInformationTableSection(doc)
    IN  IF DetectFileType(extracted_content) = "xml"
        THEN ParseXml(extracted_content)
        ELSE ParseTxt(extracted_content)

\* the distinct identifiers of a table
Cusips(df) == { df[i].cusip : i \in 1..Len(df) }

\* get_holdings_count
GetHoldingsCount(df) ==
    IF df = <<>> THEN 0 ELSE Cardinality(Cusips(df))

(***************************************************************************)
(* The parser on its own: any document, then parse_information_table and   *)
(* get_holdings_count as _process_single_fund calls them.                  *)
(***************************************************************************)
InitParser ==
    /\ content \in Documents
    /\ parse_pc = "doc"
    /\ parse_path = "none"
    /\ holdings_df = <<>>
    /\ num_holdings = 0
    /\ ParseOthersIdle

Parse ==
    /\ parse_pc = "doc"
    /\ LET parsed == ParseInformationTable(content)
       IN  /\ holdings_df' = parsed.df
           /\ parse_path' = parsed.path
           /\ num_holdings' = GetHoldingsCount(parsed.df)
           /\ parse_pc' = IF parsed.raised THEN "raised" ELSE "parsed"
    /\ UNCHANGED <<content, notParse>>

NextParser == Parse

SpecParser == InitParser /\ [][NextParser]_vars

(***************************************************************************)
(* C1: for every document, in each of the three format paths (XML, HTML    *)
(* table, key/value text), the table parse returns holds at most one row   *)
(* per identifier, and the row kept for an identifier is the first row of  *)
(* the document that carries it.                                           *)
(***************************************************************************)
\* the identifier a document row ends up with on the given path
FinalCusip(path, row) ==
    IF path = "xml" THEN Strip(row.cusip) ELSE CleanCusip(Strip(row.cusip))

\* a document row that carries a holding: on the XML and key/value paths a
\* row needs a non-empty identifier and issuer, a table row needs its cells
RowAccepted(path, row) ==
    path = "html" \/ (Strip(row.cusip) # <<>> /\ Strip(row.issuer) # <<>>)

C1_OneRowPerIdentifier ==
    parse_pc = "parsed" =>
        /\ \A i, j \in 1..Len(holdings_df) :
               holdings_df[i].cusip = holdings_df[j].cusip => i = j
        /\ \A i \in 1..Len(holdings_df) :
               LET pos == holdings_df[i].value_usd
               IN  /\ pos \in 1..Len(content.rows)
                   /\ \A k \in 1..(pos - 1) :
                          RowAccepted(parse_path, content.rows[k]) =>
                              FinalCusip(parse_path, content.rows[k])
                                  # holdings_df[i].cusip

(***************************************************************************)
(* C2: the holdings count handed to the filter and stored in the summary   *)
(* is the number of distinct identifiers that remain after cleaning and    *)
(* deduplication of the rows the parser read, whatever the number of raw   *)
(* rows; an empty table counts zero.                                       *)
(***************************************************************************)
\* the parser read the document's rows in the layout they are written in
RowsRead ==
    /\ SectionVariant(content) # 3
    /\ \/ parse_path = "xml" /\ content.layout = "xml"
       \/ parse_path = "html" /\ content.layout = "html"
       \/ parse_path = "text" /\ content.layout = "kv"

\* the cleaned identifiers of the rows that carry a holding
CleanedIdentifiers ==
    { CleanCusip(Strip(content.rows[k].cusip)) :
        k \in { j \in 1..Len(content.rows) :
                  RowAccepted(parse_path, content.rows[j]) } }

C2_CountIsDistinctCleanedIdentifiers ==
    /\ (parse_pc = "parsed" /\ RowsRead) =>
           num_holdings = Cardinality(CleanedIdentifiers)
    /\ (parse_pc = "parsed" /\ holdings_df = <<>>) => num_holdings = 0

(***************************************************************************)
(*                      Fund processor (logic.py)                          *)
(***************************************************************************)
MaxFunds == 2             \* funds named by one request

\* str(n) without padding
Str(n) == IntToStr(n, 1)

\* A format that puts a dash where the letter Q belongs.
FormatQuarter_Dash(year, quarter) == Str(year) \o <<"-">> \o Str(quarter)

\* format_quarter: f"{year}Q{quarter}"
FormatQuarter(year, quarter) == Str(year) \o <<"Q">> \o Str(quarter)

(***************************************************************************)
(* parse_quarter: six characters, int() of the first four and of the       *)
(* sixth; the fifth character is not looked at.  ok = FALSE stands for     *)
(* ValueError.                                                             *)
(***************************************************************************)
ParseQuarter(text) ==
    LET bad == [ok |-> FALSE, year |-> 0, quarter |-> 0]
    IN  IF Len(text) # 6 THEN bad
        ELSE LET y == SubSeq(text, 1, 4)
                 q == SubSeq(text, 6, 6)
             IN  IF ~AllDigits(y) \/ ~AllDigits(q) THEN bad
                 ELSE IF DigitsToInt(q) < 1 \/ DigitsToInt(q) > 4 THEN bad
                 ELSE IF DigitsToInt(y) < 2000 \/ DigitsToInt(y) > 2030 THEN bad
                 ELSE [ok |-> TRUE, year |-> DigitsToInt(y),
                       quarter |-> DigitsToInt(q)]

\* get_latest_quarter: the fiscal quarter of today, then one quarter back
GetLatestQuarter(now) ==
    LET cur == IF now.month <= 3 THEN <<now.year - 1, 4>>
               ELSE IF now.month <= 6 THEN <<now.year, 1>>
               ELSE IF now.month <= 9 THEN <<now.year, 2>>
               ELSE <<now.year, 3>>
    IN  IF cur[2] = 1 THEN FormatQuarter(cur[1] - 1, 4)
        ELSE FormatQuarter(cur[1], cur[2] - 1)

\* str.zfill(width)
RECURSIVE Zfill(_, _)
Zfill(text, width) ==
    IF Len(text) >= width THEN text ELSE Zfill(<<"0">> \o text, width)

\* normalize_cik: the digits of the text, zero-padded to ten characters
NormalizeCik(cik) == Zfill(SelectSeq(cik, IsDigit), 10)

\* the funds of a list whose cik no earlier fund of the list has
RECURSIVE UniqueFunds(_)
UniqueFunds(funds) ==
    IF funds = <<>> THEN <<>>
    ELSE LET init == UniqueFunds(SubSeq(funds, 1, Len(funds) - 1))
             last == funds[Len(funds)]
         IN  IF \E i \in 1..(Len(funds) - 1) : funds[i].cik = last.cik
             THEN init ELSE Append(init, last)

(***************************************************************************)
(* _get_fund_list: the ciks normalized, then the names the search resolved *)
(* (resolved[i] is the cik found for funds[i], <<>> when none was found),  *)
(* then duplicates of a cik removed.                                       *)
(***************************************************************************)
GetFundList(funds, ciks, resolved) ==
    LET by_cik  == [i \in 1..Len(ciks) |->
                       [cik |-> NormalizeCik(ciks[i]), name |-> NormalizeCik(ciks[i])]]
        found   == { i \in 1..Len(funds) : resolved[i] # <<>> }
        Named(i) == i \in found
        idx     == SelectSeq([i \in 1..Len(funds) |-> i], Named)
        by_name == [k \in 1..Len(idx) |->
                       [cik |-> resolved[idx[k]], name |-> funds[idx[k]]]]
    IN  UniqueFunds(by_cik \o by_name)

(***************************************************************************)
(* _check_first_time_filer: the earliest 13F-HR or 13F-HR/A record whose   *)
(* fiscal quarter is before the target.  A payload without filings or      *)
(* without recent arrays counts as a first-time filer.  NoPeriod stands    *)
(* for earliest_period = None.                                             *)
(***************************************************************************)
NoPeriod == <<>>

\* A comparison that also counts a filing of the target quarter as prior.
QuarterBefore_OrSame(fq, target_year, target_quarter) ==
    fq[1] < target_year \/ (fq[1] = target_year /\ fq[2] <= target_quarter)

QuarterBefore(fq, target_year, target_quarter) ==
    fq[1] < target_year \/ (fq[1] = target_year /\ fq[2] < target_quarter)

RECURSIVE FirstTimeLoop(_, _, _, _, _)
FirstTimeLoop(recent, target_year, target_quarter, i, earliest) ==
    IF i > Len(recent.form) THEN earliest
    ELSE LET skip == FirstTimeLoop(recent, target_year, target_quarter, i + 1, earliest)
         IN  IF ~(i <= Len(recent.filingDate)) THEN skip
             ELSE IF recent.form[i] \notin ThirteenFForms THEN skip
             ELSE LET dt == Strptime(recent.filingDate[i])
                      fq == FirstTimeQuarter(dt)
                  IN  IF ~dt.ok THEN skip                  \* ValueError: continue
                      ELSE IF ~QuarterBefore(fq, target_year, target_quarter) THEN skip
                      ELSE IF earliest.found /\ ~DateBefore(dt, earliest.filing) THEN skip
                      ELSE FirstTimeLoop(recent, target_year, target_quarter, i + 1,
                               [found |-> TRUE, filing |-> dt,
                                period |-> FormatQuarter(fq[1], fq[2])])

CheckFirstTimeFiler(subs, target_year, target_quarter) ==
    LET none == [found |-> FALSE,
                 filing |-> [ok |-> FALSE, year |-> 0, month |-> 0, day |-> 0],
                 period |-> NoPeriod]
        earliest == IF ~subs.has_filings \/ ~subs.has_recent THEN none
                    ELSE FirstTimeLoop(subs.recent, target_year, target_quarter, 1, none)
    IN  [is_first_time |-> ~earliest.found, earliest_period |-> earliest.period]

(***************************************************************************)
(* _passes_holdings_filters.  An optional argument is the empty set when   *)
(* it is None, else the set of its one value.                              *)
(***************************************************************************)
\* A filter in which the range does not replace separate bounds.
PassesHoldingsFilters_NoOverride(n, min_holdings, max_holdings, between_holdings) ==
    LET lo == IF min_holdings # {} THEN min_holdings
              ELSE { b[1] : b \in between_holdings }
        hi == IF max_holdings # {} THEN max_holdings
              ELSE { b[2] : b \in between_holdings }
    IN  /\ \A m \in lo : ~(n < m)
        /\ \A m \in hi : ~(n > m)

PassesHoldingsFilters(n, min_holdings, max_holdings, between_holdings) ==
    LET lo == IF between_holdings # {} THEN { b[1] : b \in between_holdings }
              ELSE min_holdings
        hi == IF between_holdings # {} THEN { b[2] : b \in between_holdings }
              ELSE max_holdings
    IN  /\ \A m \in lo : ~(n < m)
        /\ \A m \in hi : ~(n > m)

(***************************************************************************)
(* _get_company_submissions.  env.cached says what Cache.get did for the   *)
(* fund's key: "miss", "hit" or "raise"; env.failed and env.subs are the   *)
(* payload obtained, from the cache on a hit and from the client on a      *)
(* miss.  A failed fetch makes the client return {}.  Cache.set stamps the *)
(* dictionary it is given, so the dictionary returned after a fetch holds  *)
(* a timestamp, as every dictionary read from the cache does.              *)
(***************************************************************************)
\* A lookup that asks the client whatever the cache holds.
GetCompanySubmissions_AlwaysFetch(cik, env) ==
    IF env.cached = "raise"
    THEN [raised |-> TRUE, empty |-> TRUE, subs |-> NoSubmissions, sets |-> {},
          requests |-> {}]
    ELSE [raised |-> FALSE, empty |-> FALSE,
          subs |-> IF env.failed THEN NoSubmissions ELSE env.subs,
          sets |-> { <<cik, IF env.failed THEN "empty" ELSE "history">> },
          requests |-> { <<"submissions", cik>> }]

GetCompanySubmissions(cik, env) ==
    IF env.cached = "raise"
    THEN [raised |-> TRUE, empty |-> TRUE, subs |-> NoSubmissions, sets |-> {},
          requests |-> {}]
    ELSE IF env.cached = "hit"
    THEN [raised |-> FALSE, empty |-> FALSE,
          subs |-> IF env.failed THEN NoSubmissions ELSE env.subs, sets |-> {},
          requests |-> {}]
    ELSE [raised |-> FALSE, empty |-> FALSE,
          subs |-> IF env.failed THEN NoSubmissions ELSE env.subs,
          sets |-> { <<cik, IF env.failed THEN "empty" ELSE "history">> },
          requests |-> { <<"submissions", cik>> }]

\* a result of _process_single_fund without a summary
NoSummary ==
    [fund_name |-> <<>>, cik |-> <<>>, period |-> <<>>, period_end |-> <<>>,
     is_first_time_filer |-> FALSE, num_holdings |-> 0,
     earliest_filing_period |-> NoPeriod]

\* A fund without holdings data that gets a summary all the same.
Ended_SummaryWithoutHoldings(how, sets, requests) ==
    [outcome |-> IF how = "no_holdings" THEN "summary" ELSE how,
     summary |-> NoSummary, sets |-> sets, saved |-> FALSE, requests |-> requests]

Ended(how, sets, requests) ==
    [outcome |-> how, summary |-> NoSummary, sets |-> sets, saved |-> FALSE,
     requests |-> requests]

(***************************************************************************)
(* _process_single_fund and, around it, the try of process_funds: outcome  *)
(* "summary" appends a summary, "error" is an exception that process_funds *)
(* logs, every other outcome is a return of None.  The argument            *)
(* only_first_time is received and not read.                               *)
(***************************************************************************)
ProcessSingleFund(fund_info, year, quarter_num, quarter, only_first_time, min_holdings, max_holdings, between_holdings, env) ==
    LET got == GetCompanySubmissions(fund_info.cik, env)
        document == { <<"document", fund_info.cik>> }
    IN  IF got.raised THEN Ended("error", got.sets, got.requests)
        ELSE IF got.empty THEN Ended("no_submissions", got.sets, got.requests)
        ELSE
        LET found == FindTargetFilings(got.subs, year, quarter_num)
        IN  IF found = <<>> THEN Ended("no_target_filing", got.sets, got.requests)
            ELSE
            LET latest == GetLatestFiling(found)
                first  == CheckFirstTimeFiler(got.subs, year, quarter_num)
            IN  IF latest = NoFiling THEN Ended("no_target_filing", got.sets, got.requests)
                ELSE IF latest.accessionNumber = ""
                THEN Ended("no_holdings", got.sets, got.requests)
                ELSE IF ~env.doc_ok \/ ParseInformationTable(env.doc).raised
                THEN Ended("no_holdings", got.sets, got.requests \cup document)
                ELSE
                LET df == ParseInformationTable(env.doc).df
                    n  == GetHoldingsCount(df)
                IN  IF ~PassesHoldingsFilters(n, min_holdings, max_holdings,
                                              between_holdings)
                    THEN Ended("filtered", got.sets, got.requests \cup document)
                    ELSE IF ~env.save_ok
                    THEN Ended("error", got.sets, got.requests \cup document)
                    ELSE [outcome |-> "summary",
                          summary |->
                              [fund_name   |-> fund_info.name,
                               cik         |-> fund_info.cik,
                               period      |-> quarter,
                               period_end  |-> latest.filingDate,
                               is_first_time_filer |-> first.is_first_time,
                               num_holdings |-> n,
                               earliest_filing_period |-> first.earliest_period],
                          sets  |-> got.sets,
                          saved |-> TRUE,
                          requests |-> got.requests \cup document]

(***************************************************************************)
(* Inputs of the processor.                                                *)
(***************************************************************************)
Nov1  == DateStr(2024, 11, 1, TRUE)
Nov15 == DateStr(2024, 11, 15, TRUE)
Feb10 == DateStr(2024, 2, 10, TRUE)
Jul1  == DateStr(2024, 7, 1, FALSE)

History(forms, dates) ==
    [has_filings |-> TRUE, has_recent |-> TRUE,
     recent |-> [form |-> forms, filingDate |-> dates,
                 accessionNumber |-> SubSeq(AccessionPool, 1, Len(forms)),
                 primaryDocument |-> SubSeq(PrimaryDocPool, 1, Len(forms))]]

PriorFiler == History(<<"13F-HR", "13F-HR">>, <<Nov15, Feb10>>)

Histories ==
    { NoSubmissions,
      History(<<"13F-HR">>, <<Nov1>>),
      PriorFiler,
      History(<<"13F-HR/A", "13F-NT">>, <<Nov1, Feb10>>),
      History(<<"13F-HR">>, <<Feb10>>),
      History(<<"13F-HR", "13F-HR">>, <<Nov1, Jul1>>) }

HoldingRow(cusip, i) ==
    [cusip |-> cusip, issuer |-> <<"X">>, value |-> Str(i), voting |-> <<>>,
     sole |-> <<>>]

FilingDocument(layout, rows) ==
    [tags |-> IF layout = "xml" THEN {1} ELSE {}, layout |-> layout,
     wellformed |-> layout = "xml", xmldecl |-> FALSE, infotag100 |-> FALSE,
     cusip100 |-> layout # "xml", rows |-> rows]

DocPool ==
    { FilingDocument("xml", <<>>),
      FilingDocument("xml", <<HoldingRow(<<"A", "1">>, 1), HoldingRow(<<"A", "1">>, 2)>>),
      FilingDocument("xml", <<HoldingRow(<<"A", "1">>, 1), HoldingRow(<<"B", "2">>, 2)>>),
      FilingDocument("html", <<HoldingRow(<<"A", "-", "1">>, 1)>>) }

\* the document fetch fails, or delivers a document and the files are
\* written, or delivers a document and writing the files fails
DocOutcomes ==
    { <<FALSE, NoDocument, TRUE>> }
    \cup { <<TRUE, doc, TRUE>> : doc \in DocPool }
    \cup { <<TRUE, doc, FALSE>> : doc \in { FilingDocument("xml", <<>>) } }

FundEnvs ==
    { [NoFundEnv EXCEPT !.cached = "raise"] }
    \cup
    { [cached |-> "hit", failed |-> p[1], subs |-> p[2],
       doc_ok |-> d[1], doc |-> d[2], save_ok |-> d[3]] :
         p \in { <<TRUE, NoSubmissions>>, <<FALSE, PriorFiler>> },
         d \in DocOutcomes }
    \cup
    { [cached |-> "miss", failed |-> p[1], subs |-> p[2],
       doc_ok |-> d[1], doc |-> d[2], save_ok |-> d[3]] :
         p \in { <<TRUE, NoSubmissions>> } \cup { <<FALSE, h>> : h \in Histories },
         d \in DocOutcomes }

QuarterPool == { FormatQuarter(2024, 3), FormatQuarter(2024, 5), <<>> }

NowPool ==
    { [year |-> 2025, month |-> 2], [year |-> 2024, month |-> 11],
      [year |-> 2031, month |-> 4], [year |-> 2031, month |-> 7] }

FilterPool ==
    { [min_holdings |-> {},  max_holdings |-> {},  between_holdings |-> {}],
      [min_holdings |-> {2}, max_holdings |-> {0}, between_holdings |-> {}],
      [min_holdings |-> {2}, max_holdings |-> {},  between_holdings |-> {<<1, 1>>}] }

\* the ciks a request names are a prefix of this list
CikList == << Str(1), Str(2), NormalizeCik(Str(1)) >>

CikLists == { SubSeq(CikList, 1, k) : k \in 0..Min2(MaxFunds, Len(CikList)) }

FundNames == { <<"F", "u", "n", "d">> }

ResolvedPool == { <<>>, NormalizeCik(Str(1)), NormalizeCik(Str(2)) }

RequestPool ==
    { [funds |-> fs, ciks |-> cs, quarter |-> q, now |-> n,
       only_first_time |-> oft, min_holdings |-> flt.min_holdings,
       max_holdings |-> flt.max_holdings,
       between_holdings |-> flt.between_holdings] :
         fs \in SeqsUpTo(FundNames, MaxFunds), cs \in CikLists,
         q \in QuarterPool, n \in NowPool, oft \in BOOLEAN, flt \in FilterPool }

(***************************************************************************)
(* SpecProcess: one call of process_funds.                                 *)
(***************************************************************************)
InitProcess ==
    /\ proc_pc = "request"
    /\ request \in { r \in RequestPool :
                       /\ Len(r.funds) + Len(r.ciks) <= MaxFunds
                       /\ r.quarter # <<>> => r.now = [year |-> 2025, month |-> 2] }
    /\ quarter_str = <<>>
    /\ target_yq = <<0, 0>>
    /\ fund_list = <<>>
    /\ fund_idx = 0
    /\ fund_env = NoFundEnv
    /\ filing_summaries = <<>>
    /\ outcomes = <<>>
    /\ cache_sets = {}
    /\ saved_files = {}
    /\ net_requests = {}
    /\ name_ciks = <<>>
    /\ ProcOthersIdle

\* _resolve_fund_name_to_cik keeps the cik of a name it resolved in
\* company_name_cache: a later occurrence of the name gets the same cik
NameCacheKept(funds, resolved) ==
    \A i, j \in 1..Len(funds) :
        (i < j /\ funds[i] = funds[j] /\ resolved[i] # <<>>)
            => resolved[j] = resolved[i]

\* process_funds resolving the fund names before it validates the quarter
StartProcess_FundsFirst ==
    /\ proc_pc = "request"
    /\ LET quarter == IF request.quarter = <<>> THEN GetLatestQuarter(request.now)
                      ELSE request.quarter
           parsed  == ParseQuarter(quarter)
       IN  /\ quarter_str' = quarter
           /\ IF ~parsed.ok
              THEN /\ proc_pc' = "returned"                \* return []
                   /\ net_requests' = { <<"search", request.funds[i]>> :
                                           i \in 1..Len(request.funds) }
                   /\ UNCHANGED <<target_yq, fund_list, fund_idx, name_ciks>>
              ELSE /\ target_yq' = <<parsed.year, parsed.quarter>>
                   /\ \E resolved \in [1..Len(request.funds) -> ResolvedPool] :
                        /\ NameCacheKept(request.funds, resolved)
                        /\ name_ciks' = resolved
                        /\ fund_list' = GetFundList(request.funds, request.ciks,
                                                    resolved)
                   /\ net_requests' = { <<"search", request.funds[i]>> :
                                           i \in 1..Len(request.funds) }
                   /\ proc_pc' = IF fund_list' = <<>> THEN "returned" ELSE "loop"
                   /\ fund_idx' = 1
    /\ UNCHANGED <<request, fund_env, filing_summaries, outcomes, cache_sets,
                   saved_files>>
    /\ UNCHANGED notProc

\* process_funds up to its loop: the quarter, then the fund list
StartProcess ==
    /\ proc_pc = "request"
    /\ LET quarter == IF request.quarter = <<>> THEN GetLatestQuarter(request.now)
                      ELSE request.quarter
           parsed  == ParseQuarter(quarter)
       IN  /\ quarter_str' = quarter
           /\ IF ~parsed.ok
              THEN /\ proc_pc' = "returned"                \* return []
                   /\ UNCHANGED <<target_yq, fund_list, fund_idx, net_requests,
                                  name_ciks>>
              ELSE /\ target_yq' = <<parsed.year, parsed.quarter>>
                   /\ \E resolved \in [1..Len(request.funds) -> ResolvedPool] :
                        /\ NameCacheKept(request.funds, resolved)
                        /\ name_ciks' = resolved
                        /\ fund_list' = GetFundList(request.funds, request.ciks,
                                                    resolved)
                   /\ net_requests' = { <<"search", request.funds[i]>> :
                                           i \in 1..Len(request.funds) }
                   /\ proc_pc' = IF fund_list' = <<>> THEN "returned" ELSE "loop"
                   /\ fund_idx' = 1
    /\ UNCHANGED <<request, fund_env, filing_summaries, outcomes, cache_sets,
                   saved_files>>
    /\ UNCHANGED notProc

\* A loop that an exception of one fund ends.
AfterFund_Abort(outcome, idx, n) ==
    IF outcome = "error" \/ idx = n THEN "returned" ELSE "loop"

\* where the loop of process_funds goes after a fund: an exception is logged
\* and the loop continues; after the last fund the list is returned
AfterFund(outcome, idx, n) ==
    IF idx = n THEN "returned" ELSE "loop"

\* one iteration of the loop of process_funds; after the last one it returns
ProcessFund ==
    /\ proc_pc = "loop"
    /\ fund_idx <= Len(fund_list)
    /\ \E env \in FundEnvs :
         LET r == ProcessSingleFund(fund_list[fund_idx], target_yq[1], target_yq[2],
                      quarter_str, request.only_first_time, request.min_holdings,
                      request.max_holdings, request.between_holdings, env)
         IN  /\ fund_env' = env
             /\ filing_summaries' = IF r.outcome = "summary"
                                    THEN Append(filing_summaries, r.summary)
                                    ELSE filing_summaries
             /\ outcomes' = Append(outcomes, r.outcome)
             /\ cache_sets' = cache_sets \cup r.sets
             /\ saved_files' = IF r.saved
                               THEN saved_files \cup {fund_list[fund_idx].cik}
                               ELSE saved_files
             /\ net_requests' = net_requests \cup r.requests
    /\ fund_idx' = fund_idx + 1
    /\ proc_pc' = AfterFund(outcomes'[fund_idx], fund_idx, Len(fund_list))
    /\ UNCHANGED <<request, quarter_str, target_yq, fund_list, name_ciks>>
    /\ UNCHANGED notProc

NextProcess == StartProcess \/ ProcessFund

SpecProcess == InitProcess /\ [][NextProcess]_vars

(***************************************************************************)
(* C3: when process_funds is called with only_first_time set, every        *)
(* summary of the returned list has is_first_time_filer = TRUE: a fund     *)
(* with an earlier 13F-HR filing is not returned.                          *)
(***************************************************************************)
C3_OnlyFirstTimeFilersReturned ==
    (proc_pc = "returned" /\ request.only_first_time) =>
        \A i \in 1..Len(filing_summaries) :
            filing_summaries[i].is_first_time_filer

(***************************************************************************)
(* SpecHistory: first-time-filer detection over one submission history.    *)
(***************************************************************************)
InitHistory ==
    /\ filing_date = <<>>
    /\ fq_target = None
    /\ fq_first = None
    /\ submissions \in SubmissionsPool
    /\ target \in TargetPool
    /\ sel_pc = "history"
    /\ target_filings = <<>>
    /\ latest_filing = NoFiling
    /\ first_time = NoFirstTime
    /\ SelOthersIdle

\* _process_single_fund, line 201
CheckFirstTime ==
    /\ sel_pc = "history"
    /\ first_time' = CheckFirstTimeFiler(submissions, target[1], target[2])
    /\ sel_pc' = "checked"
    /\ UNCHANGED <<filing_date, fq_target, fq_first, submissions, target,
                   target_filings, latest_filing>>
    /\ UNCHANGED notSel

NextHistory == CheckFirstTime

SpecHistory == InitHistory /\ [][NextHistory]_vars

\* The indices of the history that name a 13F-HR or 13F-HR/A record whose
\* fiscal quarter is strictly earlier than the target.
PriorIndices ==
    LET r == submissions.recent
    IN  { i \in 1..Len(r.form) :
            /\ submissions.has_filings /\ submissions.has_recent
            /\ i <= Len(r.filingDate)
            /\ r.form[i] \in {"13F-HR", "13F-HR/A"}
            /\ Strptime(r.filingDate[i]).ok
            /\ LET q == ExpectedQuarter(Strptime(r.filingDate[i]).year,
                                        Strptime(r.filingDate[i]).month)
               IN  q[1] < target[1] \/ (q[1] = target[1] /\ q[2] < target[2]) }

(***************************************************************************)
(* C11: first-time-filer detection returns (true, None) exactly when the   *)
(* history holds no 13F-HR or 13F-HR/A record whose fiscal quarter is      *)
(* strictly earlier than the target quarter (a payload without filings     *)
(* included); otherwise it returns (false, q) with q the formatted fiscal  *)
(* quarter of the earliest-dated such record.                              *)
(***************************************************************************)
C11_FirstTimeFilerDetection ==
    sel_pc = "checked" =>
        IF PriorIndices = {}
        THEN first_time = [is_first_time |-> TRUE, earliest_period |-> NoPeriod]
        ELSE /\ ~first_time.is_first_time
             /\ \E i \in PriorIndices :
                  LET di == Strptime(submissions.recent.filingDate[i])
                      qi == ExpectedQuarter(di.year, di.month)
                  IN  /\ \A j \in PriorIndices :
                             ~DateBefore(Strptime(submissions.recent.filingDate[j]), di)
                      /\ first_time.earliest_period
                             = Str(qi[1]) \o <<"Q">> \o Str(qi[2])

\* C11 witness: two prior records, the later-listed one dated earlier, and
\* its quarter is the one reported
C11_Witness ==
    /\ sel_pc = "checked"
    /\ PriorIndices = {1, 2}
    /\ DateBefore(Strptime(submissions.recent.filingDate[2]),
                  Strptime(submissions.recent.filingDate[1]))
    /\ ~first_time.is_first_time
    /\ first_time.earliest_period = FormatQuarter(2023, 4)

(***************************************************************************)
(* SpecFilter: _passes_holdings_filters called with any count and bounds.  *)
(***************************************************************************)
MaxCount == 3             \* largest holdings count and bound

OptionalCounts == { {} } \cup { {n} : n \in 0..MaxCount }

OptionalRanges == { {} } \cup { {<<a, b>>} : a \in 0..MaxCount, b \in 0..MaxCount }

InitFilter ==
    /\ util_pc = "args"
    /\ filter_args \in [num_holdings : 0..MaxCount, min_holdings : OptionalCounts,
                        max_holdings : OptionalCounts,
                        between_holdings : OptionalRanges]
    /\ filter_passes = FALSE
    /\ quarter_text = <<>>
    /\ quarter_result = NoQuarterResult
    /\ UtilOthersIdle

ApplyFilter ==
    /\ util_pc = "args"
    /\ filter_passes' = PassesHoldingsFilters(filter_args.num_holdings,
                            filter_args.min_holdings, filter_args.max_holdings,
                            filter_args.between_holdings)
    /\ util_pc' = "done"
    /\ UNCHANGED <<filter_args, quarter_text, quarter_result>>
    /\ UNCHANGED notUtil

NextFilter == ApplyFilter

SpecFilter == InitFilter /\ [][NextFilter]_vars

YearTexts ==
    { Str(1999), Str(2000), Str(2024), Str(2030), Str(2031),
      <<"2", "0", "a", "4">>, <<" ", "2", "0", "2">> }

QuarterTexts ==
    { y \o <<sep>> \o <<q>> :
        y \in YearTexts, sep \in {"Q", "q", "X", "-"},
        q \in {"0", "1", "2", "3", "4", "5", "Q"} }
    \cup { <<>>, Str(2024), Str(2024) \o <<"Q">>, Str(2024) \o <<"Q", "1", "2">>,
           <<"Q", "1">> \o Str(2024) }

InitQuarter ==
    /\ util_pc = "args"
    /\ quarter_text \in QuarterTexts
    /\ quarter_result = NoQuarterResult
    /\ filter_args = NoFilterArgs
    /\ filter_passes = FALSE
    /\ UtilOthersIdle

ParseAndFormat ==
    /\ util_pc = "args"
    /\ LET parsed == ParseQuarter(quarter_text)
       IN  quarter_result' =
               IF parsed.ok
               THEN [raised |-> FALSE, year |-> parsed.year,
                     quarter |-> parsed.quarter,
                     formatted |-> FormatQuarter(parsed.year, parsed.quarter)]
               ELSE [NoQuarterResult EXCEPT !.raised = TRUE]     \* ValueError
    /\ util_pc' = "done"
    /\ UNCHANGED <<quarter_text, filter_args, filter_passes>>
    /\ UNCHANGED notUtil

NextQuarter == ParseAndFormat

SpecQuarter == InitQuarter /\ [][NextQuarter]_vars

\* a text that is a four-digit year of the accepted range, the letter Q and a
\* quarter digit 1-4
ValidQuarterText(text) ==
    /\ Len(text) = 6
    /\ \A i \in 1..4 : text[i] \in {"0", "1", "2", "3", "4", "5", "6", "7", "8", "9"}
    /\ \/ text[1] = "2" /\ text[2] = "0" /\ text[3] \in {"0", "1", "2"}
       \/ text[1] = "2" /\ text[2] = "0" /\ text[3] = "3" /\ text[4] = "0"
    /\ text[5] = "Q"
    /\ text[6] \in {"1", "2", "3", "4"}

(***************************************************************************)
(* C13: for every valid YYYYQn text s (year within the accepted range,     *)
(* quarter digit 1-4), format_quarter applied to the result of             *)
(* parse_quarter(s) returns s.                                             *)
(***************************************************************************)
C13_QuarterRoundTrip ==
    (util_pc = "done" /\ ValidQuarterText(quarter_text)) =>
        /\ ~quarter_result.raised
        /\ quarter_result.formatted = quarter_text

\* C13 witness: the last quarter of the last accepted year made the round trip
C13_Witness ==
    /\ util_pc = "done"
    /\ quarter_text = <<"2", "0", "3", "0", "Q", "4">>
    /\ quarter_result.year = 2030 /\ quarter_result.quarter = 4
    /\ quarter_result.formatted = quarter_text

(***************************************************************************)
(* C14: parse_quarter raises a validation error for every text that is not *)
(* exactly a four-digit year of the accepted range, the letter Q and a     *)
(* quarter digit 1-4: no other text is accepted as a (year, quarter) pair. *)
(***************************************************************************)
C14_InvalidQuarterRejected ==
    (util_pc = "done" /\ ~ValidQuarterText(quarter_text)) => quarter_result.raised

(***************************************************************************)
(* C15: in process_funds an exception raised while one fund is processed   *)
(* never keeps a later fund of the batch from being processed: every fund  *)
(* of the batch is processed, and the returned list holds, in batch order, *)
(* the summary of every fund whose own processing produced one.            *)
(***************************************************************************)
C15_BatchIsolation ==
    (proc_pc = "returned" /\ fund_list # <<>>) =>
        /\ Len(outcomes) = Len(fund_list)
        /\ LET Summarized(i) == outcomes[i] = "summary"
               idx == SelectSeq([i \in 1..Len(fund_list) |-> i], Summarized)
           IN  /\ Len(filing_summaries) = Len(idx)
               /\ \A k \in 1..Len(idx) :
                      filing_summaries[k].cik = fund_list[idx[k]].cik

\* C15 witness: the first fund raised, the second one is in the result
C15_Witness ==
    /\ proc_pc = "returned"
    /\ Len(fund_list) = 2
    /\ outcomes = <<"error", "summary">>
    /\ Len(filing_summaries) = 1
    /\ filing_summaries[1].cik = fund_list[2].cik

(***************************************************************************)
(* C16: parse with automatic format detection never raises, whatever the   *)
(* document text: a document that holds none of the three information-     *)
(* table tag variants goes whole to format detection and yields a          *)
(* (possibly empty) holdings table.                                        *)
(***************************************************************************)
\* the extractor that format detection on the whole document leads to
WholeDocumentPath ==
    IF (content.xmldecl \/ content.infotag100 \/ ~content.cusip100)
       /\ content.wellformed
    THEN "xml"
    ELSE IF content.layout = "html" THEN "html" ELSE "text"

C16_ParseNeverRaises ==
    parse_pc \notin {"doc", "off"} =>
        /\ parse_pc = "parsed"
        /\ (content.tags = {} => parse_path = WholeDocumentPath)

\* C16 witness: a document without any tag that is not well-formed XML was
\* taken for XML, fell back to the text extractor and gave its holdings
C16_Witness ==
    /\ parse_pc = "parsed"
    /\ content.tags = {}
    /\ ~content.wellformed /\ ~content.cusip100
    /\ parse_path = "text"
    /\ Len(holdings_df) = 2

(***************************************************************************)
(* C17: every identifier of the table parse returns consists of            *)
(* alphanumeric characters only, in every format path, and two raw         *)
(* identifiers that differ only in punctuation are one identifier before   *)
(* deduplication (so only one row of them remains).                        *)
(***************************************************************************)
C17_IdentifiersAlphanumeric ==
    parse_pc = "parsed" =>
        /\ \A i \in 1..Len(holdings_df) :
               \A k \in 1..Len(holdings_df[i].cusip) : IsAlnum(holdings_df[i].cusip[k])
        /\ \A i, j \in 1..Len(holdings_df) :
               CleanCusip(holdings_df[i].cusip) = CleanCusip(holdings_df[j].cusip)
                   => i = j

(***************************************************************************)
(* C18: every row of the table parse returns has a non-empty identifier    *)
(* and a non-empty issuer name; a raw row in which either is missing or    *)
(* empty, an identifier that is empty once its non-alphanumeric characters *)
(* are stripped included, is dropped.                                      *)
(***************************************************************************)
C18_RequiredFieldsNonEmpty ==
    parse_pc = "parsed" =>
        \A i \in 1..Len(holdings_df) :
            /\ CleanCusip(holdings_df[i].cusip) # <<>>
            /\ holdings_df[i].issuer_name # <<>>

(***************************************************************************)
(* C19: in every row of the table parse returns, each of the three         *)
(* voting-authority fields (sole, shared, none) is an integer >= 0,        *)
(* whatever the raw value was.                                             *)
(***************************************************************************)
VotingFields(holding) ==
    { holding.voting_authority_sole, holding.voting_authority_shared,
      holding.voting_authority_none }

C19_VotingFieldsNonNegativeIntegers ==
    parse_pc = "parsed" =>
        \A i \in 1..Len(holdings_df) :
            \A cell \in VotingFields(holdings_df[i]) :
                cell.is_int /\ cell.val >= 0


(***************************************************************************)
(* C20: reconstruction of filing records from the four parallel arrays     *)
(* uses only indices within the shortest of the four: every candidate      *)
(* record is the record of such an index, so an index beyond the end of    *)
(* any one array yields no candidate.                                      *)
(***************************************************************************)
ShortestArray ==
    LET r == submissions.recent
        lengths == { Len(r.form), Len(r.filingDate), Len(r.accessionNumber),
                     Len(r.primaryDocument) }
    IN  CHOOSE n \in lengths : \A m \in lengths : n <= m

C20_OnlyIndicesWithinShortestArray ==
    sel_pc \in {"selected", "no_filing"} =>
        \A k \in 1..Len(target_filings) :
            \E i \in 1..ShortestArray :
                /\ target_filings[k].form = submissions.recent.form[i]
                /\ target_filings[k].filingDate = submissions.recent.filingDate[i]
                /\ target_filings[k].accessionNumber
                       = submissions.recent.accessionNumber[i]
                /\ target_filings[k].primaryDocument
                       = submissions.recent.primaryDocument[i]


(***************************************************************************)
(* C21: when an attempt receives HTTP 429 the client waits the fixed       *)
(* 5-second cooldown before the failure is handed to the retry policy, and *)
(* the attempt counts toward the same 3-attempt limit as any other failed  *)
(* attempt: a call answered only by 429 ends in an error after 3 attempts. *)
(***************************************************************************)
C21_CooldownThenRetryLimit ==
    LET n == Len(attempt_log)
    IN  (n > 0 /\ attempt_log[n] = "http_429") =>
            /\ clock >= last_sent + CooldownMs
            /\ n <= StopAfterAttempt
            /\ fetch_pc = "backoff" => n < StopAfterAttempt /\ attempt_number = n
            /\ fetch_pc = "attempt" => attempt_number = n + 1
            /\ fetch_pc = "idle" =>
                   /\ n = StopAfterAttempt
                   /\ request_result = "RetryError"
                   /\ \A i \in 1..n : attempt_log[i] \in Failures

\* C21 witness: a call answered three times by 429 has ended in RetryError,
\* fifteen seconds of cooldown and both backoff waits after it began.
C21_Witness ==
    /\ fetch_pc = "idle"
    /\ attempt_log = <<"http_429", "http_429", "http_429">>
    /\ request_result = "RetryError"
    /\ clock >= StartClock + 3 * CooldownMs + WaitExponentialMs(1)
                 + WaitExponentialMs(2)


(***************************************************************************)
(* C22: when the requested quarter string fails validation, process_funds  *)
(* rejects the request before any processing: it returns an empty result   *)
(* having issued no network request (no name search either), written no    *)
(* cache entry and written no holdings file.                               *)
(***************************************************************************)
C22_InvalidQuarterRejectedFirst ==
    (proc_pc # "request" /\ ~ParseQuarter(quarter_str).ok) =>
        /\ proc_pc = "returned"
        /\ filing_summaries = <<>>
        /\ outcomes = <<>>
        /\ net_requests = {}
        /\ cache_sets = {}
        /\ saved_files = {}

\* C22 witness: a request naming a fund and a cik for the quarter "2024Q5"
\* has returned.
C22_Witness ==
    /\ proc_pc = "returned"
    /\ request.quarter = FormatQuarter(2024, 5)
    /\ ~ParseQuarter(quarter_str).ok
    /\ request.funds # <<>>
    /\ request.ciks # <<>>
    /\ filing_summaries = <<>>


(***************************************************************************)
(* C23: for text that neither begins with an XML declaration nor has an    *)
(* information-table open tag within its first 100 characters, parse uses  *)
(* the table extractor whenever the text contains an HTML-like table and   *)
(* the key:value extractor otherwise, and returns that extractor's table;  *)
(* such text is never handled as structured markup.                        *)
(***************************************************************************)
DetectedText == ExtractInformationTableSection(content)

C23_PlainTextUsesTextExtractors ==
    (parse_pc = "parsed" /\ ~DetectedText.xmldecl /\ ~DetectedText.infotag100) =>
        /\ parse_path = IF DetectedText.layout = "html" THEN "html" ELSE "text"
        /\ holdings_df = IF DetectedText.layout = "html"
                         THEN ParseHtmlTable(DetectedText)
                         ELSE ParseStructuredText(DetectedText)


(***************************************************************************)
(* C24: when text classified as structured markup is not well-formed XML,  *)
(* the parser does not fail: it runs the text extractors on the same text  *)
(* and returns their result, so holdings present in that text in table or  *)
(* key:value form are still returned.                                      *)
(***************************************************************************)
C24_MalformedXmlFallsBackToText ==
    (/\ parse_pc \notin {"doc", "off"}
     /\ DetectFileType(DetectedText) = "xml"
     /\ ~DetectedText.wellformed)
    => /\ parse_pc = "parsed"
       /\ DetectedText.layout = "html" =>
              parse_path = "html" /\ holdings_df = ParseHtmlTable(DetectedText)
       /\ DetectedText.layout # "html" =>
              parse_path = "text" /\ holdings_df = ParseStructuredText(DetectedText)

\* C24 witness: a text that begins with an XML declaration, is not
\* well-formed and holds an HTML table gave the two rows of the table.
C24_Witness ==
    /\ parse_pc = "parsed"
    /\ content.tags = {} /\ content.xmldecl /\ ~content.wellformed
    /\ content.layout = "html"
    /\ parse_path = "html"
    /\ Len(holdings_df) = 2


(***************************************************************************)
(* C25: in the structured-markup path each extracted holding's sole,       *)
(* shared and none voting-authority counts equal the integer values of the *)
(* sole, shared and none sub-elements nested under that row's voting-      *)
(* authority element (0 when the sub-element is absent or not numeric).    *)
(***************************************************************************)
\* the integer value of a sub-element's text, 0 when absent or not numeric
SubElementCount(text) ==
    IF IsIntText(Strip(text)) THEN IntCell(TextToInt(Strip(text))) ELSE IntCell(0)

C25_XmlVotingCountsFromSubElements ==
    (parse_pc = "parsed" /\ parse_path = "xml") =>
        \A i \in 1..Len(holdings_df) :
            \E k \in 1..Len(DetectedText.rows) :
                /\ holdings_df[i].cusip = Strip(DetectedText.rows[k].cusip)
                /\ holdings_df[i].voting_authority_sole
                       = SubElementCount(DetectedText.rows[k].sole)
                /\ holdings_df[i].voting_authority_shared = IntCell(0)
                /\ holdings_df[i].voting_authority_none = IntCell(0)


(***************************************************************************)
(* SpecLookup: _get_company_submissions over the cache and the clock.  No  *)
(* file is damaged and every write succeeds; time passes between lookups.  *)
(***************************************************************************)
LookupCiks == { NormalizeCik(Str(1)), NormalizeCik(Str(2)) }

\* cache_key = f"submissions_{cik}"
CacheKeyOf(cik) ==
    IF cik = NormalizeCik(Str(1)) THEN "submissions_0000000001"
    ELSE "submissions_0000000002"

LookupKeys == { CacheKeyOf(cik) : cik \in LookupCiks }

InitLookup ==
    /\ cache_files = [k \in LookupKeys |-> NoFile]
    /\ cache_clock = 0
    /\ cache_last = NoCacheOp
    /\ lookup_last = NoLookup
    /\ last_ok_fetch = [cik \in LookupCiks |-> -1]
    /\ CacheOthersIdle

\* One call of _get_company_submissions(cik): Cache.get, and on a miss the
\* client's get_company_submissions (which answers {} when it failed) and
\* Cache.set of what it answered.
Lookup ==
    /\ \E cik \in LookupCiks, fetch_ok \in BOOLEAN :
         LET key    == CacheKeyOf(cik)
             cached == CacheGetResult(cache_files[key], cache_clock)
             env    == [NoFundEnv EXCEPT
                           !.cached = IF cached.kind = "data" THEN "hit"
                                      ELSE IF cached.kind = "raise" THEN "raise"
                                      ELSE "miss",
                           !.failed = IF cached.kind = "data"
                                      THEN cached.data.payload = "empty"
                                      ELSE ~fetch_ok,
                           !.subs   = PriorFiler]
             got    == GetCompanySubmissions(cik, env)
             asked  == got.requests # {}
         IN  /\ cache_files' =
                    IF got.sets = {} THEN cache_files
                    ELSE [cache_files EXCEPT ![key] =
                             [state |-> "object", ts_kind |-> "naive_iso",
                              timestamp |-> cache_clock,
                              payload |-> IF <<cik, "empty">> \in got.sets
                                          THEN "empty" ELSE "submissions"]]
             /\ lookup_last' =
                    [cik |-> cik, requested |-> asked,
                     fetch_ok |-> asked /\ fetch_ok,
                     entry |-> cache_files[key], last_ok |-> last_ok_fetch[cik],
                     value |-> IF got.raised THEN "raise"
                               ELSE IF got.subs = NoSubmissions THEN "empty"
                               ELSE "submissions"]
             /\ last_ok_fetch' = IF asked /\ fetch_ok
                                 THEN [last_ok_fetch EXCEPT ![cik] = cache_clock]
                                 ELSE last_ok_fetch
    /\ UNCHANGED <<cache_clock, cache_last>>
    /\ UNCHANGED notCache

\* Time passes between lookups: an hour, or most of a day.
LookupTick ==
    /\ \E d \in {1, 23} :
         /\ cache_clock + d <= MaxCacheClock
         /\ cache_clock' = cache_clock + d
    /\ lookup_last' = NoLookup
    /\ UNCHANGED <<cache_files, cache_last, last_ok_fetch>>
    /\ UNCHANGED notCache

NextLookup == Lookup \/ LookupTick

SpecLookup == InitLookup /\ [][NextLookup]_vars

C29_FailedFetchLeavesCacheAlone ==
    lookup_last # NoLookup =>
        /\ (lookup_last.requested /\ ~lookup_last.fetch_ok)
               => cache_files[CacheKeyOf(lookup_last.cik)] = lookup_last.entry
        /\ ~lookup_last.requested => lookup_last.entry.payload # "empty"


(***************************************************************************)
(* C27: the result list of process_funds holds no summary for a fund whose *)
(* name could not be resolved to an identifier, for which no filing        *)
(* matches the target quarter, or whose holdings extraction failed; such a *)
(* fund is omitted and raises no error to the caller.                      *)
(***************************************************************************)
\* the records of the history the last fund got that match the target quarter
MatchingRecords ==
    LET r == fund_env.subs.recent
    IN  { i \in 1..Len(r.form) :
            /\ ~fund_env.failed
            /\ fund_env.subs.has_filings /\ fund_env.subs.has_recent
            /\ i <= Len(r.filingDate) /\ i <= Len(r.accessionNumber)
            /\ r.form[i] \in {"13F-HR", "13F-HR/A"}
            /\ Strptime(r.filingDate[i]).ok
            /\ ExpectedQuarter(Strptime(r.filingDate[i]).year,
                               Strptime(r.filingDate[i]).month) = target_yq }

\* the last fund had no matching filing, or its document could not be fetched
LastFundWithoutHoldings ==
    /\ proc_pc \in {"loop", "returned"}
    /\ fund_idx > 1
    /\ fund_env.cached \in {"hit", "miss"}
    /\ MatchingRecords = {} \/ ~fund_env.doc_ok

\* the names of the request that no search resolved
UnresolvedNames ==
    { request.funds[j] : j \in 1..Len(name_ciks) } \
        { request.funds[j] : j \in { k \in 1..Len(name_ciks) : name_ciks[k] # <<>> } }

C28_ClearRemovesOnlyItsKey ==
    [][cache_last'.op = "clear" =>
          IF cache_last'.kind = "key"
          THEN cache_files' = [cache_files EXCEPT ![cache_last'.key] = NoFile]
          ELSE cache_files' = [k \in CacheKeys |-> NoFile]]_vars


(***************************************************************************)
(* C30: for every current date the default quarter string produced by      *)
(* get_latest_quarter is accepted by parse_quarter, so a process_funds     *)
(* call without an explicit quarter never ends empty because its own       *)
(* default quarter failed validation.                                      *)
(***************************************************************************)
C30_DefaultQuarterIsValid ==
    (proc_pc # "request" /\ request.quarter = <<>>) =>
        /\ quarter_str = GetLatestQuarter(request.now)
        /\ ParseQuarter(quarter_str).ok

=============================================================================
